---- MODULE Spec2Model ----
(***************************************************************************)
(* State-machine model of the cursor-chat-browser API routes:              *)
(*   DELETE /api/remove-empty-workspaces  (Workspace Pruner)               *)
(*   GET    /api/statistics               (Workspace Scanner, Statistics   *)
(*                                         Aggregator, Global Database     *)
(*                                         Analyzer)                       *)
(* JavaScript strings are sequences of one-character strings, so that      *)
(* startsWith, split and path.join are computed and not assumed.           *)
(***************************************************************************)
EXTENDS Integers, Sequences, FiniteSets, TLC

VARIABLES
    env,                \* process.env.WORKSPACE_PATH ("" when not configured)
    fsys,               \* the disk: existing absolute path -> node
    fsysAtRequest,      \* the disk as it was when the DELETE request arrived
    \* ---- DELETE /api/remove-empty-workspaces
    pcDelete,           \* "idle" | "loop" | "done"
    body,               \* the request body as sent
    workspaceIds,       \* the destructured list being iterated
    idIdx,              \* position of the for..of loop
    removedWorkspaces,
    errors,
    deleteResponse,
    \* ---- GET /api/statistics
    pcGet,              \* "idle" | "scan" | "done"
    entries,            \* result of fs.readdir(workspacePath, withFileTypes)
    entryIdx,           \* position of the for..of loop
    workspaceDetails,
    errorLog,           \* console.error calls of the per-workspace catch
    getResponse,
    \* ---- analyzeGlobalDatabase called on its own
    globalStats,
    \* ---- GET /api/database-entry and the page that shows the entry
    pcLookup,           \* "idle" | "done"
    query,              \* the search parameters key and source
    lookupResponse,
    dataType,           \* what the page shows for formatDataType(key)
    \* ---- every request
    ioLog,              \* the file-system and database calls made so far
    \* ---- the awaits of the two route handlers, when requests overlap
    scan,               \* GET: where the loop body stands, and its locals
    rmTarget,           \* DELETE: the directory fs.rm is removing, or <<>>
    \* ---- the statistics page
    page                \* the statistics page: its phase and React state

vars == <<env, fsys, fsysAtRequest, pcDelete, body, workspaceIds, idIdx,
          removedWorkspaces, errors, deleteResponse, pcGet, entries, entryIdx,
          workspaceDetails, errorLog, getResponse, globalStats,
          pcLookup, query, lookupResponse, dataType, ioLog,
          scan, rmTarget, page>>

deleteVars == <<pcDelete, body, workspaceIds, idIdx, removedWorkspaces, errors,
                deleteResponse, fsysAtRequest>>
getVars == <<pcGet, entries, entryIdx, workspaceDetails, errorLog, getResponse>>
lookupVars == <<pcLookup, query, lookupResponse, dataType>>
stepVars == <<scan, rmTarget>>

----------------------------------------------------------------------------
(* Bounds of the model *)

MaxWorkspaces == 2      \* names that may exist under the workspace root
MaxIds == 3             \* longest workspaceIds list of a DELETE body
MaxRows == 4            \* most rows of a drawn cursorDiskKV table
MaxExtra == 1           \* rows beyond the top-N cut in the long tables
MaxPathIds == 2         \* longest workspaceIds list of ids that are paths
MaxRaceIds == 1         \* longest workspaceIds list of a DELETE that overlaps a GET

----------------------------------------------------------------------------
(* Strings *)

Min(a, b) == IF a < b THEN a ELSE b

StartsWith(s, p) == Len(s) >= Len(p) /\ SubSeq(s, 1, Len(p)) = p

\* String.prototype.split(sep): the pieces between occurrences of the
\* one-character separator (always at least one piece).
RECURSIVE Split(_, _)
Split(s, sep) ==
    IF \A i \in 1..Len(s) : s[i] # sep
    THEN <<s>>
    ELSE LET k == CHOOSE i \in 1..Len(s) :
                      s[i] = sep /\ \A j \in 1..(i - 1) : s[j] # sep
         IN  <<SubSeq(s, 1, k - 1)>> \o Split(SubSeq(s, k + 1, Len(s)), sep)

RECURSIVE JoinWith(_, _)
JoinWith(parts, sep) ==
    IF Len(parts) = 0 THEN <<>>
    ELSE IF Len(parts) = 1 THEN parts[1]
    ELSE parts[1] \o <<sep>> \o JoinWith(Tail(parts), sep)

SeqsUpTo(S, n) == UNION { [1..k -> S] : k \in 0..n }

----------------------------------------------------------------------------
(* Paths (node:path, POSIX) *)

Slash == "/"
Dot == <<".">>
DotDot == <<".", ".">>

\* normalizeString: drops "" and "." segments; ".." removes the segment
\* before it, is dropped at the root of an absolute path and kept otherwise.
RECURSIVE NormalizeSegments(_, _, _)
NormalizeSegments(segs, acc, allowAboveRoot) ==
    IF Len(segs) = 0 THEN acc
    ELSE LET s == Head(segs)
             next ==
                 IF s = <<>> \/ s = Dot THEN acc
                 ELSE IF s = DotDot
                      THEN IF Len(acc) > 0 /\ acc[Len(acc)] # DotDot
                           THEN SubSeq(acc, 1, Len(acc) - 1)
                           ELSE IF allowAboveRoot THEN Append(acc, s) ELSE acc
                      ELSE Append(acc, s)
         IN  NormalizeSegments(Tail(segs), next, allowAboveRoot)

\* path.normalize
PathNormalize(p) ==
    IF Len(p) = 0 THEN Dot
    ELSE LET isAbsolute == p[1] = Slash
             trailingSeparator == p[Len(p)] = Slash
             segs == NormalizeSegments(Split(p, Slash), <<>>, ~isAbsolute)
             core == JoinWith(segs, Slash)
         IN  IF Len(core) = 0
             THEN IF isAbsolute THEN <<Slash>>
                  ELSE IF trailingSeparator THEN <<".", Slash>> ELSE Dot
             ELSE (IF isAbsolute THEN <<Slash>> ELSE <<>>) \o core
                  \o (IF trailingSeparator THEN <<Slash>> ELSE <<>>)

\* path.join(...parts): the non-empty parts joined by "/" and normalized.
PathJoin(parts) ==
    LET kept == SelectSeq(parts, LAMBDA x : Len(x) > 0)
    IN  IF Len(kept) = 0 THEN Dot ELSE PathNormalize(JoinWith(kept, Slash))

WORKSPACE_PATH == <<"/", "U", "/", "w">>
StateVscdb == <<"s","t","a","t","e",".","v","s","c","d","b">>
WorkspaceJson == <<"w","o","r","k","s","p","a","c","e",".","j","s","o","n">>
GlobalStorage == <<"g","l","o","b","a","l","S","t","o","r","a","g","e">>

----------------------------------------------------------------------------
(* JSON values as JavaScript sees them after JSON.parse *)

JUndefined == [t |-> "undefined"]
JNull == [t |-> "null"]
JNum(n) == [t |-> "num", n |-> n]
JStr(s) == [t |-> "str", s |-> s]
JArr(items) == [t |-> "arr", items |-> items]
JObj(fields) == [t |-> "obj", fields |-> fields]
\* request.json() rejects: the body is not JSON text
NotJson == [t |-> "invalid"]

\* obj.name for a value that is neither null nor undefined
GetProp(j, name) ==
    IF j.t = "obj" /\ name \in DOMAIN j.fields THEN j.fields[name] ELSE JUndefined

\* !!j
Truthy(j) ==
    CASE j.t = "undefined" -> FALSE
      [] j.t = "null" -> FALSE
      [] j.t = "num" -> j.n # 0
      [] j.t = "str" -> Len(j.s) > 0
      [] OTHER -> TRUE

IsArray(j) == j.t = "arr"

\* An object without properties
NoFields == [x \in {} |-> JNull]

----------------------------------------------------------------------------
(* The disk *)

DirNode(locked) == [kind |-> "dir", locked |-> locked]
FileNode(content) == [kind |-> "file", locked |-> FALSE, content |-> content]

EmptyFs == [p \in {} |-> DirNode(FALSE)]

Parent == PathJoin(<<WORKSPACE_PATH, DotDot>>)

StripSlash(p) ==
    IF Len(p) > 1 /\ p[Len(p)] = Slash THEN SubSeq(p, 1, Len(p) - 1) ELSE p

\* Whether the operating system resolves p (a trailing "/" asks for a
\* directory).
Exists(fs, p) ==
    LET q == StripSlash(p)
    IN  /\ q \in DOMAIN fs
        /\ (q # p => fs[q].kind = "dir")

IsUnder(q, p) ==
    \/ q = p
    \/ StartsWith(q, IF p = <<Slash>> THEN p ELSE p \o <<Slash>>)

Subtree(fs, p) == { q \in DOMAIN fs : IsUnder(q, StripSlash(p)) }

Restrict(fs, keep) == [q \in keep |-> fs[q]]

\* A removal of the tree at p throws when a node of the tree cannot be
\* unlinked (EPERM, EBUSY, ...).
RmThrows(fs, p) == \E q \in Subtree(fs, p) : fs[q].locked

\* The disks fs.rm(p, {recursive, force}) may leave behind.  A removal that
\* succeeds leaves nothing of the tree; one that throws stops anywhere
\* between having removed nothing and having removed every subtree that
\* holds no locked node.
RmOutcomes(fs, p) ==
    LET tree == Subtree(fs, p)
        stuck == { q \in tree : \E r \in tree : fs[r].locked /\ IsUnder(r, q) }
    IN  IF RmThrows(fs, p)
        THEN { fs, Restrict(fs, (DOMAIN fs \ tree) \cup stuck) }
        ELSE { Restrict(fs, DOMAIN fs \ tree) }

\* Names of the children of directory p, and fs.readdir's Dirent for one.
ChildNames(fs, p) ==
    { SubSeq(q, Len(p) + 2, Len(q)) :
        q \in { r \in DOMAIN fs :
                  /\ r # p /\ IsUnder(r, p)
                  /\ \A i \in (Len(p) + 2)..Len(r) : r[i] # Slash } }

Dirent(fs, p, name) ==
    [name |-> name, isDirectory |-> fs[PathJoin(<<p, name>>)].kind = "dir"]

----------------------------------------------------------------------------
(* DELETE /api/remove-empty-workspaces *)

Response400 == [status |-> 400]
Response500 == [status |-> 500]
NoResponse == [status |-> 0]

\* Lines 5-26: configuration check, body parsing and validation.
DeleteStart ==
    /\ pcDelete = "idle"
    /\ fsysAtRequest' = fsys
    /\ LET ids == GetProp(body, "workspaceIds")
       IN  IF Len(env) = 0
           THEN /\ deleteResponse' = Response400
                /\ pcDelete' = "done"
                /\ UNCHANGED workspaceIds
           ELSE IF body = NotJson \/ body = JNull
           THEN \* request.json() rejects, or destructuring null throws:
                \* the outer catch answers
                /\ deleteResponse' = Response500
                /\ pcDelete' = "done"
                /\ UNCHANGED workspaceIds
           ELSE IF ~Truthy(ids) \/ ~IsArray(ids)
           THEN /\ deleteResponse' = Response400
                /\ pcDelete' = "done"
                /\ UNCHANGED workspaceIds
           ELSE /\ workspaceIds' = ids.items
                /\ pcDelete' = "loop"
                /\ UNCHANGED deleteResponse
    /\ UNCHANGED <<env, fsys, body, idIdx, removedWorkspaces, errors>>
    /\ UNCHANGED <<getVars, globalStats, lookupVars, ioLog>>
    /\ UNCHANGED <<stepVars, page>>

\* Lines 33-38: fs.access(workspaceDir) rejects.
AccessFails_Never(fs, workspaceDir) == FALSE

AccessFails(fs, workspaceDir) == ~Exists(fs, workspaceDir)

\* Lines 28-29, 43-49: the try/catch sits inside the loop body, so a failed
\* item moves on to the next one.
LoopAdvance_AbortOnFailure(i, n, failed) == IF failed THEN n + 1 ELSE i + 1

LoopAdvance(i, n, failed) == i + 1

NotFoundError(workspaceId) ==
    [workspaceId |-> workspaceId, error |-> "Workspace directory not found"]
ThrownError(workspaceId, message) ==
    [workspaceId |-> workspaceId, error |-> message]

\* Lines 28-50: one iteration of the loop over workspaceIds.
DeleteItem ==
    /\ pcDelete = "loop"
    /\ idIdx <= Len(workspaceIds)
    /\ LET workspaceId == workspaceIds[idIdx]
           workspaceDir == PathJoin(<<env, workspaceId.s>>)
           typeError == workspaceId.t # "str"
           notFound == ~typeError /\ AccessFails(fsys, workspaceDir)
           rmThrows == ~typeError /\ ~notFound /\ RmThrows(fsys, workspaceDir)
       IN  /\ IF typeError \/ notFound
              THEN fsys' = fsys
              ELSE fsys' \in RmOutcomes(fsys, workspaceDir)
           /\ errors' =
                 IF typeError
                 THEN \* path.join throws a TypeError on a non-string argument
                      Append(errors, ThrownError(workspaceId, "TypeError"))
                 ELSE IF notFound THEN Append(errors, NotFoundError(workspaceId))
                 ELSE IF rmThrows
                      THEN Append(errors, ThrownError(workspaceId, "rm failed"))
                      ELSE errors
           /\ removedWorkspaces' =
                 IF typeError \/ notFound \/ rmThrows
                 THEN removedWorkspaces
                 ELSE Append(removedWorkspaces, workspaceId)
           /\ idIdx' = LoopAdvance(idIdx, Len(workspaceIds),
                                   typeError \/ notFound \/ rmThrows)
    /\ UNCHANGED <<env, body, workspaceIds, pcDelete, deleteResponse, fsysAtRequest>>
    /\ UNCHANGED <<getVars, globalStats, lookupVars, ioLog>>
    /\ UNCHANGED <<stepVars, page>>

\* Lines 52-58: the success body.
DeleteRespond ==
    /\ pcDelete = "loop"
    /\ idIdx > Len(workspaceIds)
    /\ deleteResponse' = [status |-> 200,
                          success |-> TRUE,
                          removedWorkspaces |-> removedWorkspaces,
                          removedCount |-> Len(removedWorkspaces),
                          errors |-> errors]
    /\ pcDelete' = "done"
    /\ UNCHANGED <<env, fsys, body, workspaceIds, idIdx, removedWorkspaces, errors,
                   fsysAtRequest>>
    /\ UNCHANGED <<getVars, globalStats, lookupVars, ioLog>>
    /\ UNCHANGED <<stepVars, page>>

----------------------------------------------------------------------------
(* Stored values and databases *)

\* A column value: SQL NULL, or text held as runs of a repeated character
\* (or of one literal chunk), e.g. "y" * 200000.
NullValue == [isNull |-> TRUE, text |-> <<>>]
Text(runs) == [isNull |-> FALSE, text |-> runs]
Run(ch, n) == [ch |-> ch, n |-> n]
Literal(chunk) == Text(<<Run(chunk, 1)>>)
EmptyText == Text(<<>>)

Row(key, value) == [key |-> key, value |-> value]

\* A state.vscdb file: health "corrupt" makes every statement throw.
SqliteDb(health, tables) == [type |-> "sqlite", health |-> health, tables |-> tables]
TextFile(value) == [type |-> "text", text |-> value]

GlobalDbPath == PathJoin(<<WORKSPACE_PATH, DotDot, GlobalStorage, StateVscdb>>)

NameList == << <<"a">>, <<"b">>, <<"c">>, <<"d">> >>
WorkspaceNames == { NameList[i] : i \in 1..MaxWorkspaces }

BaseFs ==
    (Parent :> DirNode(FALSE))
    @@ (PathJoin(<<Parent, GlobalStorage>>) :> DirNode(FALSE))
    @@ (WORKSPACE_PATH :> DirNode(FALSE))

\* What one name under the workspace root stands for on a drawn disk.
Absent == [kind |-> "absent"]
PlainFile == [kind |-> "file"]
WorkspaceDir(locked, db, json) ==
    [kind |-> "dir", locked |-> locked, db |-> db, json |-> json]
NoFile == [type |-> "none"]

WorkspaceTree(name, cfg) ==
    LET dir == PathJoin(<<WORKSPACE_PATH, name>>)
    IN  IF cfg.kind = "absent" THEN EmptyFs
        ELSE IF cfg.kind = "file" THEN (dir :> FileNode(TextFile(EmptyText)))
        ELSE (dir :> DirNode(cfg.locked))
             @@ (IF cfg.db = NoFile THEN EmptyFs
                 ELSE (PathJoin(<<dir, StateVscdb>>) :> FileNode(cfg.db)))
             @@ (IF cfg.json = NoFile THEN EmptyFs
                 ELSE (PathJoin(<<dir, WorkspaceJson>>) :> FileNode(cfg.json)))

RECURSIVE WorkspaceTrees(_, _)
WorkspaceTrees(names, cfgOf) ==
    IF names = {} THEN EmptyFs
    ELSE LET n == CHOOSE x \in names : TRUE
         IN  WorkspaceTree(n, cfgOf[n]) @@ WorkspaceTrees(names \ {n}, cfgOf)

GlobalDbFile(db) == IF db = NoFile THEN EmptyFs ELSE (GlobalDbPath :> FileNode(db))

Disk(cfgOf, globalDb) ==
    BaseFs @@ GlobalDbFile(globalDb) @@ WorkspaceTrees(DOMAIN cfgOf, cfgOf)

EmptyItemTable == SqliteDb("ok", [ItemTable |-> <<>>])
EmptyGlobalDb == SqliteDb("ok", [cursorDiskKV |-> <<>>])

----------------------------------------------------------------------------
(* Sizes *)

\* The character U+00E9, two bytes in UTF-8 and one UTF-16 code unit.
EAcute == "U+00E9"

\* Bytes of one chunk in UTF-8; every other chunk of the model is ASCII.
Utf8Bytes(chunk) == IF chunk = EAcute THEN 2 ELSE Len(chunk)
\* String length of one chunk (UTF-16 code units).
Utf16Units(chunk) == IF chunk = EAcute THEN 1 ELSE Len(chunk)

RECURSIVE ByteLength(_)
ByteLength(text) ==
    IF Len(text) = 0 THEN 0
    ELSE Head(text).n * Utf8Bytes(Head(text).ch) + ByteLength(Tail(text))

RECURSIVE StringLength(_)
StringLength(text) ==
    IF Len(text) = 0 THEN 0
    ELSE Head(text).n * Utf16Units(Head(text).ch) + StringLength(Tail(text))

\* !value for a column value: null and the empty string are falsy.
Falsy(value) == value.isNull \/ StringLength(value.text) = 0

\* 1024 * 1024
MBytes == 1048576

\* calculateDataSizeMB.  A size in MB is held as its numerator over MBytes,
\* i.e. as the byte count: bytes / 2^20 and the sums of such quotients are
\* exact in double precision for every size the disk can hold.
CalculateDataSizeMB(data) == IF Falsy(data) THEN 0 ELSE ByteLength(data.text)

----------------------------------------------------------------------------
(* Database Reader: sqlite open / all / get *)

\* Whether a statement on `table` of the file at path throws.
QueryThrows(fs, path, table) ==
    \/ path \notin DOMAIN fs
    \/ fs[path].kind # "file"
    \/ fs[path].content.type # "sqlite"
    \/ fs[path].content.health # "ok"
    \/ table \notin DOMAIN fs[path].content.tables

\* open({ filename: path }) rejects: the path is no regular file.  A file
\* that is no database, or a damaged one, is opened and fails on its first
\* statement.
OpenThrows(fs, path) == path \notin DOMAIN fs \/ fs[path].kind # "file"

\* One call on the file system or on a database.
IoEvent(op, path, table) == [op |-> op, path |-> path, table |-> table]

NoTable == ""

\* The calls of open / statements / close on the file at path, as the three
\* handlers make them: close() follows the last statement and is not reached
\* when open or a statement rejects.
DbSessionLog(fs, path, table, statements) ==
    IF OpenThrows(fs, path) THEN <<IoEvent("openFailed", path, NoTable)>>
    ELSE IF QueryThrows(fs, path, table)
    THEN <<IoEvent("open", path, NoTable), IoEvent(statements[1], path, table)>>
    ELSE <<IoEvent("open", path, NoTable)>>
         \o [i \in 1..Len(statements) |-> IoEvent(statements[i], path, table)]
         \o <<IoEvent("close", path, NoTable)>>

\* db.all("SELECT [key], value FROM table")
DbAll(fs, path, table) == fs[path].content.tables[table]

\* db.get("SELECT value FROM table WHERE [key] = ?"): the row, or undefined
NoRow == [found |-> FALSE]
DbGet(fs, path, table, key) ==
    LET rows == DbAll(fs, path, table)
        hits == { i \in 1..Len(rows) : rows[i].key = key }
    IN  IF hits = {} THEN NoRow
        ELSE [found |-> TRUE,
              value |-> rows[CHOOSE i \in hits : \A j \in hits : i <= j].value]

----------------------------------------------------------------------------
(* Global Database Analyzer: analyzeGlobalDatabase *)

ComposerDataPrefix == <<"c","o","m","p","o","s","e","r","D","a","t","a",":">>
Unknown == <<"u","n","k","n","o","w","n">>
Colon == ":"

\* Line 108: slice(0, 10)
TopN == 10
\* Line 79: at most 3 sample keys per type
MaxSamples == 3
\* Line 86: MIN_SIZE_MB = 0.1, as MinSizeNum / MinSizeDen
MinSizeNum == 1
MinSizeDen == 10

\* key.split(':')[0] || 'unknown'
KeyType(key) ==
    LET first == Split(key, Colon)[1]
    IN  IF Len(first) = 0 THEN Unknown ELSE first

EmptyMap == [x \in {} |-> 0]

\* obj[k] || dflt
Lookup(map, k, dflt) == IF k \in DOMAIN map THEN map[k] ELSE dflt

Put(map, k, v) == [x \in DOMAIN map \cup {k} |-> IF x = k THEN v ELSE map[x]]

\* Lines 17-28
ZeroStats ==
    [totalEntries |-> 0, composerEntries |-> 0, otherEntries |-> 0,
     totalSizeMB |-> 0, composerDataSizeMB |-> 0, otherDataSizeMB |-> 0,
     entriesByType |-> EmptyMap, entriesSizeByType |-> EmptyMap,
     largestEntries |-> <<>>, sampleKeys |-> EmptyMap]

\* Names every object inherits from Object.prototype (two of them): for a
\* key type of that name obj[keyType] is the inherited function, not
\* undefined.
PrototypeNames == { <<"c","o","n","s","t","r","u","c","t","o","r">>,
                    <<"t","o","S","t","r","i","n","g">> }

\* (fn || 0) + n for an inherited function fn: string concatenation, the
\* text of the function followed by the digits of n
FunctionPlusNumber == "function Object() { [native code] }<n>"

\* The accessor every object inherits: obj['__proto__'] reads as
\* Object.prototype, and obj['__proto__'] = s for a string s stores nothing.
ProtoName == <<"_","_","p","r","o","t","o","_","_">>

\* Lines 76-81: the sample list of a type after one more key of it
AddSample(samples, key) ==
    IF Len(samples) < MaxSamples THEN Append(samples, key) ELSE samples

\* Lines 50-83: the body of the loop for one row.  acc holds stats and
\* allEntriesWithSize, and whether the body threw.  For a key type named
\* like an inherited function, sampleKeys[keyType] is that function: it is
\* truthy, its length is below 3 and it has no push, so line 80 throws a
\* TypeError after lines 58-73 have run.  For the key type __proto__ the
\* two assignments of lines 72-73 store nothing, sampleKeys[keyType] is
\* Object.prototype (truthy, without length), and nothing is pushed.
ScanEntry(acc, entry) ==
    LET stats == acc.stats
        key == entry.key
        value == entry.value
        sizeMB == CalculateDataSizeMB(value)
        keyType == KeyType(key)
        pushed == Append(acc.allEntriesWithSize, [key |-> key, sizeMB |-> sizeMB])
    IN  IF Falsy(value) THEN acc
        ELSE IF StartsWith(key, ComposerDataPrefix)
        THEN [allEntriesWithSize |-> pushed,
              threw |-> FALSE,
              stats |->
                  [stats EXCEPT
                          !.totalSizeMB = @ + sizeMB,
                          !.composerEntries = @ + 1,
                          !.composerDataSizeMB = @ + sizeMB]]
        ELSE IF keyType \in PrototypeNames
        THEN [allEntriesWithSize |-> pushed,
              threw |-> TRUE,
              stats |->
                  [stats EXCEPT
                          !.totalSizeMB = @ + sizeMB,
                          !.otherEntries = @ + 1,
                          !.otherDataSizeMB = @ + sizeMB,
                          !.entriesByType = Put(@, keyType, FunctionPlusNumber),
                          !.entriesSizeByType = Put(@, keyType, FunctionPlusNumber)]]
        ELSE IF keyType = ProtoName
        THEN [allEntriesWithSize |-> pushed,
              threw |-> FALSE,
              stats |->
                  [stats EXCEPT
                          !.totalSizeMB = @ + sizeMB,
                          !.otherEntries = @ + 1,
                          !.otherDataSizeMB = @ + sizeMB]]
        ELSE [allEntriesWithSize |-> pushed,
              threw |-> FALSE,
              stats |->
                  [stats EXCEPT
                          !.totalSizeMB = @ + sizeMB,
                          !.otherEntries = @ + 1,
                          !.otherDataSizeMB = @ + sizeMB,
                          !.entriesByType =
                              Put(@, keyType, Lookup(@, keyType, 0) + 1),
                          !.entriesSizeByType =
                              Put(@, keyType, Lookup(@, keyType, 0) + sizeMB),
                          !.sampleKeys =
                              Put(@, keyType,
                                  AddSample(Lookup(@, keyType, <<>>), key))]]

\* The loop of lines 50-83; a throw leaves it.
RECURSIVE ScanEntries(_, _)
ScanEntries(acc, allEntries) ==
    IF Len(allEntries) = 0 \/ acc.threw THEN acc
    ELSE ScanEntries(ScanEntry(acc, Head(allEntries)), Tail(allEntries))

\* Line 93: totalSize >= MIN_SIZE_MB
AtLeastMinSize(totalSize) == totalSize * MinSizeDen >= MinSizeNum * MBytes

\* Lines 91-98: the types that pass the filter
RetainedTypes(stats) ==
    { keyType \in DOMAIN stats.entriesByType :
        AtLeastMinSize(Lookup(stats.entriesSizeByType, keyType, 0)) }

\* Lines 96, 103: the filtered sample keys
FilteredSampleKeys(stats) ==
    [keyType \in RetainedTypes(stats) |-> Lookup(stats.sampleKeys, keyType, <<>>)]

\* Lines 85-103
FilterStats(stats) ==
    [stats EXCEPT
       !.entriesByType = [keyType \in RetainedTypes(stats) |-> stats.entriesByType[keyType]],
       !.entriesSizeByType =
           [keyType \in RetainedTypes(stats) |->
               Lookup(stats.entriesSizeByType, keyType, 0)],
       !.sampleKeys = FilteredSampleKeys(stats)]

\* Line 107: Array.prototype.sort with (a, b) => b.sizeMB - a.sizeMB is a
\* stable sort: an element goes after every element that is not smaller.
InsertBySize(sorted, e) ==
    LET before == { i \in 1..Len(sorted) : sorted[i].sizeMB >= e.sizeMB }
        k == IF before = {} THEN 0 ELSE CHOOSE i \in before : \A j \in before : j <= i
    IN  SubSeq(sorted, 1, k) \o <<e>> \o SubSeq(sorted, k + 1, Len(sorted))

RECURSIVE SortBySizeDesc(_, _)
SortBySizeDesc(sorted, rest) ==
    IF Len(rest) = 0 THEN sorted
    ELSE SortBySizeDesc(InsertBySize(sorted, Head(rest)), Tail(rest))

\* Line 108: slice(0, 10)
SliceTop_All(sorted) == sorted

SliceTop(sorted) == SubSeq(sorted, 1, Min(TopN, Len(sorted)))

\* Lines 105-113
LargestEntries(allEntriesWithSize) ==
    LET top == SliceTop(SortBySizeDesc(<<>>, allEntriesWithSize))
    IN  [i \in 1..Len(top) |->
            [key |-> top[i].key, sizeMB |-> top[i].sizeMB, type |-> KeyType(top[i].key)]]

\* Lines 15-120
AnalyzeGlobalDatabase(fs, workspacePath) ==
    LET globalDbPath == PathJoin(<<workspacePath, DotDot, GlobalStorage, StateVscdb>>)
    IN  IF ~Exists(fs, globalDbPath) THEN ZeroStats
        ELSE IF QueryThrows(fs, globalDbPath, "cursorDiskKV")
        THEN \* open or all rejects before anything is accumulated
             ZeroStats
        ELSE LET allEntries == DbAll(fs, globalDbPath, "cursorDiskKV")
                 scanned == ScanEntries(
                     [stats |-> [ZeroStats EXCEPT !.totalEntries = Len(allEntries)],
                      allEntriesWithSize |-> <<>>,
                      threw |-> FALSE],
                     allEntries)
             IN  IF scanned.threw
                 THEN \* lines 115-119: the catch logs and the stats object
                      \* is returned as the loop left it
                      scanned.stats
                 ELSE [FilterStats(scanned.stats) EXCEPT
                         !.largestEntries = LargestEntries(scanned.allEntriesWithSize)]

\* The calls analyzeGlobalDatabase makes: existsSync, then open, all, close.
AnalyzeGlobalIo(fs, workspacePath) ==
    LET globalDbPath == PathJoin(<<workspacePath, DotDot, GlobalStorage, StateVscdb>>)
    IN  <<IoEvent("exists", globalDbPath, NoTable)>>
        \o (IF ~Exists(fs, globalDbPath) THEN <<>>
            ELSE DbSessionLog(fs, globalDbPath, "cursorDiskKV", <<"all">>))

----------------------------------------------------------------------------
(* JSON.parse of the stored texts *)

TwoTabsDoc == "{\"tabs\":[1,2]}"
OneComposerDoc == "{\"allComposers\":[7]}"
FolderDoc == "{\"folder\":\"/p\"}"
EmptyObjectDoc == "{}"
NullDoc == "null"
MalformedDoc == "{bad"

\* The documents of the model that are JSON, with what JSON.parse returns.
JsonDocs ==
    (TwoTabsDoc :> JObj([tabs |-> JArr(<<JNum(1), JNum(2)>>)]))
    @@ (OneComposerDoc :> JObj([allComposers |-> JArr(<<JNum(7)>>)]))
    @@ (FolderDoc :> JObj([folder |-> JStr(<<"/", "p">>)]))
    @@ (EmptyObjectDoc :> JObj(NoFields))
    @@ (NullDoc :> JNull)

\* JSON.parse(text): a text that is not one of the documents (a run of
\* letters, the empty string, "{bad") is a SyntaxError.
JsonParse(value) ==
    IF /\ ~value.isNull
       /\ Len(value.text) = 1
       /\ value.text[1].n = 1
       /\ value.text[1].ch \in DOMAIN JsonDocs
    THEN [ok |-> TRUE, json |-> JsonDocs[value.text[1].ch]]
    ELSE [ok |-> FALSE]

\* j?.length || 0
LengthOrZero(j) ==
    CASE j.t = "arr" -> Len(j.items)
      [] j.t = "str" -> Len(j.s)
      [] OTHER -> 0

----------------------------------------------------------------------------
(* GET /api/statistics: Workspace Scanner and Statistics Aggregator *)

ChatDataKey == <<"w","o","r","k","b","e","n","c","h",".","p","a","n","e","l",".","a","i","c","h","a","t",".","v","i","e","w",".","a","i","c","h","a","t",".","c","h","a","t","d","a","t","a">>
ComposerKey == <<"c","o","m","p","o","s","e","r",".","c","o","m","p","o","s","e","r","D","a","t","a">>

ListingOrders(S) == { f \in [1..Cardinality(S) -> S] : \A i, j \in DOMAIN f : i # j => f[i] # f[j] }

\* Line 178: fs.readdir(workspacePath) rejects (ENOENT, ENOTDIR)
ReaddirThrows_Never(fs, workspacePath) == FALSE

ReaddirThrows(fs, workspacePath) ==
    ~Exists(fs, workspacePath) \/ fs[StripSlash(workspacePath)].kind # "dir"

\* Lines 166-178: configuration check and directory listing.  readdir
\* returns the children in an order of the operating system's choosing.
GetStart ==
    /\ pcGet = "idle"
    /\ IF Len(env) = 0
       THEN /\ getResponse' = Response400
            /\ pcGet' = "done"
            /\ UNCHANGED entries
       ELSE IF ReaddirThrows(fsys, env)
       THEN \* readdir rejects: the outer catch answers
            /\ getResponse' = Response500
            /\ pcGet' = "done"
            /\ UNCHANGED entries
       ELSE /\ \E order \in ListingOrders(ChildNames(fsys, env)) :
                  entries' = [i \in 1..Len(order) |-> Dirent(fsys, env, order[i])]
            /\ pcGet' = "scan"
            /\ UNCHANGED getResponse
    /\ ioLog' = IF Len(env) = 0 THEN ioLog
                ELSE Append(ioLog, IoEvent("readdir", env, NoTable))
    /\ UNCHANGED <<env, fsys, entryIdx, workspaceDetails, errorLog>>
    /\ UNCHANGED <<deleteVars, globalStats, lookupVars>>
    /\ UNCHANGED <<stepVars, page>>

\* Lines 186-188: existsSync(dbPath) is false
DbFileMissing_Never(fs, dbPath) == FALSE

DbFileMissing(fs, dbPath) == ~Exists(fs, dbPath)

\* Lines 192-198: the folder of workspace.json, undefined when the file is
\* missing, is no JSON, or is the JSON null.
WorkspaceFolder(fs, workspaceJsonPath) ==
    IF ~Exists(fs, workspaceJsonPath) \/ fs[workspaceJsonPath].kind # "file"
    THEN JUndefined
    ELSE LET parsed == JsonParse(fs[workspaceJsonPath].content.text)
         IN  IF ~parsed.ok \/ parsed.json = JNull THEN JUndefined
             ELSE GetProp(parsed.json, "folder")

\* Lines 210-221 and 229-240: what one looked-up row gives.  has is
\* !!result?.value; count and sizeMB start at 0 and are set inside a try
\* whose catch only logs, so nothing escapes to the per-workspace catch.
ReadData_NoInnerCatch(result, listField) ==
    LET has == result.found /\ ~Falsy(result.value)
        parsed == JsonParse(result.value)
        threw == has /\ (~parsed.ok \/ parsed.json = JNull)
    IN  [has |-> has,
         count |-> IF has /\ ~threw THEN LengthOrZero(GetProp(parsed.json, listField)) ELSE 0,
         sizeMB |-> IF has /\ ~threw THEN CalculateDataSizeMB(result.value) ELSE 0,
         threw |-> threw,
         escaped |-> threw]

ReadData(result, listField) ==
    LET has == result.found /\ ~Falsy(result.value)
        parsed == JsonParse(result.value)
        \* JSON.parse throws, or reading a property of null does
        threw == has /\ (~parsed.ok \/ parsed.json = JNull)
    IN  [has |-> has,
         count |-> IF has /\ ~threw THEN LengthOrZero(GetProp(parsed.json, listField)) ELSE 0,
         sizeMB |-> IF has /\ ~threw THEN CalculateDataSizeMB(result.value) ELSE 0,
         threw |-> threw,
         escaped |-> FALSE]

\* Lines 243-253
WorkspaceStats(name, folder, chat, composer) ==
    [id |-> name,
     hasChats |-> chat.has,
     hasComposers |-> composer.has,
     chatCount |-> chat.count,
     composerCount |-> composer.count,
     folder |-> folder,
     chatDataSizeMB |-> chat.sizeMB,
     composerDataSizeMB |-> composer.sizeMB,
     totalSizeMB |-> chat.sizeMB + composer.sizeMB]

LogEntry(kind, name) == [kind |-> kind, name |-> name]

\* Lines 243, 255-257: the list after a workspace was read
PushDetails(details, record) == Append(details, record)

\* Lines 180, 255-257: the per-workspace catch only logs, so the loop goes
\* on to the next directory entry whether or not the workspace failed.
ScanAdvance_AbortOnFailure(i, n, failed) == IF failed THEN n + 1 ELSE i + 1

ScanAdvance(i, n, failed) == i + 1

\* Lines 180-259: one iteration of the loop over the directory entries.
GetEntry ==
    /\ pcGet = "scan"
    /\ entryIdx <= Len(entries)
    /\ LET entry == entries[entryIdx]
           dbPath == PathJoin(<<env, entry.name, StateVscdb>>)
           workspaceJsonPath == PathJoin(<<env, entry.name, WorkspaceJson>>)
           skipped == ~entry.isDirectory \/ DbFileMissing(fsys, dbPath)
           dbThrows == QueryThrows(fsys, dbPath, "ItemTable")
           chat == ReadData(DbGet(fsys, dbPath, "ItemTable", ChatDataKey), "tabs")
           composer == ReadData(DbGet(fsys, dbPath, "ItemTable", ComposerKey),
                                "allComposers")
       IN  /\ IF skipped
              THEN UNCHANGED <<workspaceDetails, errorLog>>
              ELSE IF dbThrows
              THEN \* open or the first get rejects: the per-workspace catch logs
                   /\ errorLog' = Append(errorLog, LogEntry("workspace", entry.name))
                   /\ UNCHANGED workspaceDetails
              ELSE IF chat.escaped \/ composer.escaped
              THEN /\ errorLog' = Append(errorLog, LogEntry("workspace", entry.name))
                   /\ UNCHANGED workspaceDetails
              ELSE /\ errorLog' =
                         errorLog
                         \o (IF chat.threw THEN <<LogEntry("chat", entry.name)>> ELSE <<>>)
                         \o (IF composer.threw THEN <<LogEntry("composer", entry.name)>>
                             ELSE <<>>)
                   /\ workspaceDetails' =
                         PushDetails(workspaceDetails,
                             WorkspaceStats(entry.name,
                                            WorkspaceFolder(fsys, workspaceJsonPath),
                                            chat, composer))
           /\ ioLog' =
                 IF ~entry.isDirectory THEN ioLog
                 ELSE IF DbFileMissing(fsys, dbPath)
                 THEN Append(ioLog, IoEvent("exists", dbPath, NoTable))
                 ELSE ioLog
                      \o <<IoEvent("exists", dbPath, NoTable),
                           IoEvent("readFile", workspaceJsonPath, NoTable)>>
                      \o (IF ~dbThrows /\ chat.escaped
                          THEN <<IoEvent("open", dbPath, NoTable),
                                 IoEvent("get", dbPath, "ItemTable")>>
                          ELSE IF ~dbThrows /\ composer.escaped
                          THEN <<IoEvent("open", dbPath, NoTable),
                                 IoEvent("get", dbPath, "ItemTable"),
                                 IoEvent("get", dbPath, "ItemTable")>>
                          ELSE DbSessionLog(fsys, dbPath, "ItemTable", <<"get", "get">>))
    /\ entryIdx' =
          LET entry == entries[entryIdx]
              dbPath == PathJoin(<<env, entry.name, StateVscdb>>)
          IN  ScanAdvance(entryIdx, Len(entries),
                          /\ entry.isDirectory
                          /\ ~DbFileMissing(fsys, dbPath)
                          /\ QueryThrows(fsys, dbPath, "ItemTable"))
    /\ UNCHANGED <<env, fsys, pcGet, entries, getResponse>>
    /\ UNCHANGED <<deleteVars, globalStats, lookupVars>>
    /\ UNCHANGED <<stepVars, page>>

Indices(details) == 1..Len(details)

RECURSIVE Sum(_)
Sum(numbers) == IF Len(numbers) = 0 THEN 0 ELSE Head(numbers) + Sum(Tail(numbers))

\* Line 266
WorkspacesWithOnlyChats_AnyChats(details) ==
    Cardinality({ i \in Indices(details) : details[i].hasChats })

WorkspacesWithOnlyChats(details) ==
    Cardinality({ i \in Indices(details) : details[i].hasChats /\ ~details[i].hasComposers })

\* Lines 260-288
DatabaseStatistics(details, globalDatabase) ==
    [status |-> 200,
     totalWorkspaces |-> Len(details),
     workspacesWithChats |-> Cardinality({ i \in Indices(details) : details[i].hasChats }),
     workspacesWithComposers |->
         Cardinality({ i \in Indices(details) : details[i].hasComposers }),
     workspacesWithBoth |->
         Cardinality({ i \in Indices(details) :
                          details[i].hasChats /\ details[i].hasComposers }),
     workspacesWithNeither |->
         Cardinality({ i \in Indices(details) :
                          ~details[i].hasChats /\ ~details[i].hasComposers }),
     workspacesWithOnlyChats |-> WorkspacesWithOnlyChats(details),
     workspacesWithOnlyComposers |->
         Cardinality({ i \in Indices(details) :
                          ~details[i].hasChats /\ details[i].hasComposers }),
     totalChats |-> Sum([i \in Indices(details) |-> details[i].chatCount]),
     totalComposers |-> Sum([i \in Indices(details) |-> details[i].composerCount]),
     totalWorkspaceDataSizeMB |-> Sum([i \in Indices(details) |-> details[i].totalSizeMB]),
     workspaceDetails |-> details,
     globalDatabase |-> globalDatabase]

\* Lines 260-290: aggregation, global analysis and the answer.
GetFinish ==
    /\ pcGet = "scan"
    /\ entryIdx > Len(entries)
    /\ getResponse' =
          DatabaseStatistics(workspaceDetails, AnalyzeGlobalDatabase(fsys, env))
    /\ pcGet' = "done"
    /\ ioLog' = ioLog \o AnalyzeGlobalIo(fsys, env)
    /\ UNCHANGED <<env, fsys, entries, entryIdx, workspaceDetails, errorLog>>
    /\ UNCHANGED <<deleteVars, globalStats, lookupVars>>
    /\ UNCHANGED <<stepVars, page>>

----------------------------------------------------------------------------
(* GET /api/database-entry: single-entry lookup *)

Global == <<"g","l","o","b","a","l">>

\* searchParams.get(name) is null or a string; !param holds for null and "".
ParamMissing(param) == param = JNull \/ Len(param.s) = 0

\* source || ''
SourceOrEmpty(source) == IF ParamMissing(source) THEN <<>> ELSE source.s

\* Lines 29-39: the file and the table the lookup reads.
EntryDbPath(workspacePath, source) ==
    IF source = JStr(Global)
    THEN PathJoin(<<workspacePath, DotDot, GlobalStorage, StateVscdb>>)
    ELSE PathJoin(<<workspacePath, SourceOrEmpty(source), StateVscdb>>)

EntryTableName_AlwaysItemTable(source) == "ItemTable"

EntryTableName(source) == IF source = JStr(Global) THEN "cursorDiskKV" ELSE "ItemTable"

\* Lines 41-43: existsSync(dbPath) is false
LookupDbMissing_Never(fs, dbPath) == FALSE

LookupDbMissing(fs, dbPath) == ~Exists(fs, dbPath)

LookupError(status, error) == [status |-> status, error |-> error]

\* Lines 61-76: the entry as answered.  JSON.parse failing leaves the raw
\* value as parsedValue.
EntryBody(key, source, value) ==
    LET parsed == JsonParse(value)
    IN  [status |-> 200,
         key |-> key,
         rawValue |-> value,
         parsedValue |-> IF parsed.ok THEN parsed.json ELSE [t |-> "raw", value |-> value],
         source |-> source,
         size |-> ByteLength(value.text)]

\* Lines 7-82: the whole handler.
LookupEntry ==
    /\ pcLookup = "idle"
    /\ LET key == query.key
           source == query.source
           dbPath == EntryDbPath(env, source)
           tableName == EntryTableName(source)
           result == DbGet(fsys, dbPath, tableName, key.s)
           exists == <<IoEvent("exists", dbPath, NoTable)>>
           session == DbSessionLog(fsys, dbPath, tableName, <<"get">>)
       IN  IF ParamMissing(key)
           THEN /\ lookupResponse' = LookupError(400, "Key parameter is required")
                /\ ioLog' = ioLog
           ELSE IF Len(env) = 0
           THEN /\ lookupResponse' = LookupError(400, "Workspace path not configured")
                /\ ioLog' = ioLog
           ELSE IF LookupDbMissing(fsys, dbPath)
           THEN /\ lookupResponse' = LookupError(404, "Database not found")
                /\ ioLog' = ioLog \o exists
           ELSE IF QueryThrows(fsys, dbPath, tableName)
           THEN \* open or get rejects: the outer catch answers
                /\ lookupResponse' = LookupError(500, "Failed to get database entry")
                /\ ioLog' = ioLog \o exists \o session
           ELSE IF ~result.found
           THEN /\ lookupResponse' = LookupError(404, "Entry not found")
                /\ ioLog' = ioLog \o exists \o session
           ELSE IF result.value.isNull
           THEN \* line 74: Buffer.byteLength(null) throws a TypeError
                /\ lookupResponse' = LookupError(500, "Failed to get database entry")
                /\ ioLog' = ioLog \o exists \o session
           ELSE /\ lookupResponse' = EntryBody(key.s, source, result.value)
                /\ ioLog' = ioLog \o exists \o session
    /\ pcLookup' = "done"
    /\ UNCHANGED <<env, fsys, query, dataType>>
    /\ UNCHANGED <<deleteVars, getVars, globalStats>>
    /\ UNCHANGED <<stepVars, page>>

----------------------------------------------------------------------------
(* The entry page: formatDataType *)

NotShown == "not shown"

BubbleIdPrefix == <<"b","u","b","b","l","e","I","d",":">>
CheckpointIdPrefix == <<"c","h","e","c","k","p","o","i","n","t","I","d",":">>
CodeBlockDiffPrefix == <<"c","o","d","e","B","l","o","c","k","D","i","f","f",":">>
MessageRequestContextPrefix == <<"m","e","s","s","a","g","e","R","e","q","u","e","s","t","C","o","n","t","e","x","t",":">>

\* Lines 61-70 with the test of line 66 left out
FormatDataType_NoComposerData(key) ==
    IF StartsWith(key, BubbleIdPrefix) THEN "Chat Message"
    ELSE IF StartsWith(key, CheckpointIdPrefix) THEN "Checkpoint"
    ELSE IF StartsWith(key, CodeBlockDiffPrefix) THEN "Code Diff"
    ELSE IF StartsWith(key, MessageRequestContextPrefix) THEN "Message Context"
    ELSE IF key = ChatDataKey THEN "Chat Data"
    ELSE IF key = ComposerKey THEN "Composer Metadata"
    ELSE "Unknown"

\* Lines 61-70: the prefixes are tested first, the exact keys last.
FormatDataType(key) ==
    IF StartsWith(key, BubbleIdPrefix) THEN "Chat Message"
    ELSE IF StartsWith(key, CheckpointIdPrefix) THEN "Checkpoint"
    ELSE IF StartsWith(key, CodeBlockDiffPrefix) THEN "Code Diff"
    ELSE IF StartsWith(key, MessageRequestContextPrefix) THEN "Message Context"
    ELSE IF StartsWith(key, ComposerDataPrefix) THEN "Composer Data"
    ELSE IF key = ChatDataKey THEN "Chat Data"
    ELSE IF key = ComposerKey THEN "Composer Metadata"
    ELSE "Unknown"

\* The page shows the data type of the key it was asked for.
ShowDataType ==
    /\ dataType = NotShown
    /\ ~ParamMissing(query.key)
    /\ dataType' = FormatDataType(query.key.s)
    /\ UNCHANGED <<env, fsys, pcLookup, query, lookupResponse, ioLog>>
    /\ UNCHANGED <<deleteVars, getVars, globalStats>>
    /\ UNCHANGED <<stepVars, page>>

----------------------------------------------------------------------------
(* The requests at rest *)

DeleteIdle ==
    /\ pcDelete = "idle"
    /\ workspaceIds = <<>>
    /\ idIdx = 1
    /\ removedWorkspaces = <<>>
    /\ errors = <<>>
    /\ deleteResponse = NoResponse

GetIdle ==
    /\ pcGet = "idle"
    /\ entries = <<>>
    /\ entryIdx = 1
    /\ workspaceDetails = <<>>
    /\ errorLog = <<>>
    /\ getResponse = NoResponse

NotAnalyzed == [analyzed |-> FALSE]

NoQuery == [key |-> JNull, source |-> JNull]

\* No loop body under way, no removal under way, nothing fetched by the page.
NoHandle == [open |-> FALSE]
NoScan ==
    [step |-> "exists", folder |-> JUndefined, handle |-> NoHandle,
     chat |-> ReadData(NoRow, "tabs")]
NoStatistics == JNull
NoPage == [phase |-> "loading", statistics |-> NoStatistics, error |-> JNull]
StepIdle == scan = NoScan /\ rmTarget = <<>> /\ page = NoPage

LookupIdle ==
    /\ pcLookup = "idle"
    /\ lookupResponse = NoResponse
    /\ dataType = NotShown
    /\ ioLog = <<>>

----------------------------------------------------------------------------
(* Specification of the Workspace Pruner: one DELETE request on a drawn disk *)

PruneConfigs ==
    { Absent, PlainFile,
      WorkspaceDir(FALSE, EmptyItemTable, NoFile),
      WorkspaceDir(TRUE, EmptyItemTable, NoFile) }

IdItems == { JStr(NameList[1]), JStr(NameList[2]), JStr(NameList[3]), JNum(7) }

BodyPool ==
    { NotJson, JNull, JNum(5), JArr(<<>>), JObj(NoFields),
      JObj([workspaceIds |-> JNull]),
      JObj([workspaceIds |-> JStr(NameList[1])]) }
    \cup { JObj([workspaceIds |-> JArr(l)]) : l \in SeqsUpTo(IdItems, MaxIds) }

InitPrune ==
    /\ env \in { <<>>, WORKSPACE_PATH }
    /\ fsys \in { Disk(cfgOf, EmptyGlobalDb) : cfgOf \in [WorkspaceNames -> PruneConfigs] }
    /\ fsysAtRequest = fsys
    /\ body \in BodyPool
    /\ DeleteIdle
    /\ GetIdle
    /\ globalStats = NotAnalyzed
    /\ query = NoQuery
    /\ LookupIdle
    /\ StepIdle

NextPrune == DeleteStart \/ DeleteItem \/ DeleteRespond

SpecPrune == InitPrune /\ [][NextPrune]_vars

----------------------------------------------------------------------------
(* Specification of the Global Database Analyzer: analyzeGlobalDatabase    *)
(* applied to a drawn global store                                         *)

\* Keys of the short tables, in the order the table scan returns them.
KeyList ==
    << <<"f","o","o",":","2">>,
       <<"c","o","m","p","o","s","e","r","D","a","t","a",":","1">>,
       <<"f","o","o",":","1">>,
       <<":","x">>,
       <<"f","o","o",":","4">>,
       <<"b","a","r",":","1">>,
       <<"f","o","o",":","3">> >>

\* Values of the short tables: NULL, "", 50000 bytes, one byte under the
\* 0.1 MB threshold (104857.6 bytes), and 52429 two-byte characters
\* (104858 bytes).
ValuePool ==
    { NullValue, EmptyText, Text(<<Run("y", 50000)>>), Text(<<Run("y", 104857)>>),
      Text(<<Run(EAcute, 52429)>>) }

RECURSIVE SortedSeq(_)
SortedSeq(S) ==
    IF S = {} THEN <<>>
    ELSE LET m == CHOOSE x \in S : \A y \in S : x <= y
         IN  <<m>> \o SortedSeq(S \ {m})

\* A table with distinct keys (the key column is unique): the keys of
\* KeyList at the positions S, in scan order, with the values valueOf.
ShortTable(S, valueOf) ==
    LET idx == SortedSeq(S)
    IN  [i \in 1..Len(idx) |-> Row(KeyList[idx[i]], valueOf[idx[i]])]

ShortKeySets == { T \in SUBSET (1..Len(KeyList)) : Cardinality(T) <= MaxRows }

\* Key i of the long tables: "e:x", "e:xx", ..., every fourth one a
\* composer key "composerData:xxxx".
LongKey(i) ==
    (IF i % 4 = 0 THEN ComposerDataPrefix ELSE <<"e", ":">>) \o [j \in 1..i |-> "x"]

\* A table of n rows whose values have sizeOf[i] bytes.
LongTable(n, sizeOf) ==
    [i \in 1..n |-> Row(LongKey(i), Text(<<Run("y", sizeOf[i])>>))]

NoWorkspaces == [n \in {} |-> Absent]

GlobalDisk(db) == Disk(NoWorkspaces, db)

\* A table with a key of type __proto__ whose value reaches the threshold,
\* before a key of an ordinary type.
ProtoTable ==
    << Row(ProtoName \o <<":", "1">>, Text(<<Run("y", 104858)>>)),
       Row(KeyList[3], Text(<<Run("y", 104858)>>)) >>

\* The global store is absent, unreadable, a short table of at most MaxRows
\* rows, a long table of TopN .. TopN + MaxExtra rows of 1 or 2 bytes, or
\* the table with the __proto__ key.
InitAnalyze ==
    /\ env = WORKSPACE_PATH
    /\ \/ fsys = GlobalDisk(NoFile)
       \/ fsys = GlobalDisk(SqliteDb("corrupt", [cursorDiskKV |-> <<>>]))
       \/ \E S \in ShortKeySets : \E valueOf \in [S -> ValuePool] :
              fsys = GlobalDisk(SqliteDb("ok", [cursorDiskKV |-> ShortTable(S, valueOf)]))
       \/ \E n \in TopN..(TopN + MaxExtra) : \E sizeOf \in [1..n -> {1, 2}] :
              fsys = GlobalDisk(SqliteDb("ok", [cursorDiskKV |-> LongTable(n, sizeOf)]))
       \/ fsys = GlobalDisk(SqliteDb("ok", [cursorDiskKV |-> ProtoTable]))
    /\ fsysAtRequest = fsys
    /\ body = JNull
    /\ DeleteIdle
    /\ GetIdle
    /\ globalStats = NotAnalyzed
    /\ query = NoQuery
    /\ LookupIdle
    /\ StepIdle

\* analyzeGlobalDatabase(workspacePath) called once.
AnalyzeGlobal ==
    /\ globalStats = NotAnalyzed
    /\ globalStats' = [analyzed |-> TRUE, stats |-> AnalyzeGlobalDatabase(fsys, env)]
    /\ ioLog' = ioLog \o AnalyzeGlobalIo(fsys, env)
    /\ UNCHANGED <<env, fsys, deleteVars, getVars, lookupVars>>
    /\ UNCHANGED <<stepVars, page>>

NextAnalyze == AnalyzeGlobal

SpecAnalyze == InitAnalyze /\ [][NextAnalyze]_vars

----------------------------------------------------------------------------
(* Specification of GET /api/statistics: one request on a drawn disk *)

ItemTableOf(chat, composer) ==
    (IF chat.found THEN <<Row(ChatDataKey, chat.value)>> ELSE <<>>)
    \o (IF composer.found THEN <<Row(ComposerKey, composer.value)>> ELSE <<>>)

Stored(value) == [found |-> TRUE, value |-> value]

\* The chat-data and composer-data rows of a workspace: only composers, only
\* chats, both, text that is no JSON in either row or in both, and an empty
\* string next to a NULL.
RowPairs ==
    { <<NoRow, Stored(Literal(OneComposerDoc))>>,
      <<Stored(Literal(TwoTabsDoc)), NoRow>>,
      <<Stored(Literal(TwoTabsDoc)), Stored(Literal(OneComposerDoc))>>,
      <<Stored(Literal(MalformedDoc)), Stored(Literal(OneComposerDoc))>>,
      <<Stored(Literal(TwoTabsDoc)), Stored(Literal(MalformedDoc))>>,
      <<Stored(Literal(MalformedDoc)), Stored(Literal(MalformedDoc))>>,
      <<Stored(EmptyText), Stored(NullValue)>> }

\* What a name under the workspace root may be: nothing, a plain file, a
\* directory without database, with an unreadable one, or with a readable
\* one holding some rows.
StatsConfigs ==
    { Absent, PlainFile,
      WorkspaceDir(FALSE, NoFile, NoFile),
      WorkspaceDir(FALSE, SqliteDb("corrupt", [ItemTable |-> <<>>]), NoFile),
      WorkspaceDir(FALSE, SqliteDb("ok", [ItemTable |-> ItemTableOf(NoRow, NoRow)]),
                   TextFile(Literal(FolderDoc))),
      WorkspaceDir(FALSE,
                   SqliteDb("ok", [ItemTable |-> ItemTableOf(Stored(Literal(NullDoc)),
                                                             Stored(Literal(EmptyObjectDoc)))]),
                   TextFile(Literal(MalformedDoc))) }
    \cup { WorkspaceDir(FALSE, SqliteDb("ok", [ItemTable |-> ItemTableOf(pair[1], pair[2])]),
                        NoFile) :
             pair \in RowPairs }

\* The global store of the statistics runs: one composer row, two rows of
\* one type that reach the threshold, a NULL row.
StatsGlobalDb ==
    SqliteDb("ok",
        [cursorDiskKV |->
            << Row(KeyList[2], Text(<<Run("y", 50000)>>)),
               Row(KeyList[1], Text(<<Run("y", 104857)>>)),
               Row(KeyList[3], Text(<<Run("y", 50000)>>)),
               Row(KeyList[6], NullValue) >>])

\* Global stores the analysis cannot read to the end: no file, a damaged
\* file, a file that is no database, a database without the cursorDiskKV
\* table, and a table with a key whose type is the name of an inherited
\* function.
FaultyGlobalDbs ==
    { NoFile,
      SqliteDb("corrupt", [cursorDiskKV |-> <<>>]),
      TextFile(Literal(MalformedDoc)),
      SqliteDb("ok", [ItemTable |-> <<>>]),
      SqliteDb("ok",
          [cursorDiskKV |->
              << Row(KeyList[6], Text(<<Run("y", 1000)>>)),
                 Row(<<"c","o","n","s","t","r","u","c","t","o","r",":","1">>,
                     Text(<<Run("y", 1)>>)),
                 Row(KeyList[3], Text(<<Run("y", 104858)>>)) >>]) }

\* The workspaces next to a faulty global store: none, or readable ones.
PlainConfigs ==
    { Absent,
      WorkspaceDir(FALSE,
                   SqliteDb("ok", [ItemTable |-> ItemTableOf(Stored(Literal(TwoTabsDoc)),
                                                             NoRow)]),
                   NoFile) }

InitStats ==
    /\ env \in { <<>>, WORKSPACE_PATH }
    /\ \/ \E cfgOf \in [WorkspaceNames -> StatsConfigs] : fsys = Disk(cfgOf, StatsGlobalDb)
       \/ \E cfgOf \in [WorkspaceNames -> PlainConfigs] : \E globalDb \in FaultyGlobalDbs :
              fsys = Disk(cfgOf, globalDb)
       \/ fsys = (Parent :> DirNode(FALSE))
    /\ fsysAtRequest = fsys
    /\ body = JNull
    /\ DeleteIdle
    /\ GetIdle
    /\ globalStats = NotAnalyzed
    /\ query = NoQuery
    /\ LookupIdle
    /\ StepIdle

NextStats == GetStart \/ GetEntry \/ GetFinish

SpecStats == InitStats /\ [][NextStats]_vars

----------------------------------------------------------------------------
(* Specification of GET /api/database-entry: one lookup on a drawn disk *)

\* The ItemTable of a workspace database, with a value that tells the
\* databases apart.
MarkedItemTable(mark) ==
    << Row(ChatDataKey, Literal(TwoTabsDoc)),
       Row(KeyList[1], NullValue),
       Row(KeyList[6], Text(<<Run(mark, 3)>>)) >>

LookupConfigs ==
    { Absent,
      WorkspaceDir(FALSE, NoFile, NoFile),
      WorkspaceDir(FALSE, SqliteDb("corrupt", [ItemTable |-> <<>>]), NoFile),
      WorkspaceDir(FALSE, SqliteDb("ok", [ItemTable |-> MarkedItemTable("p")]), NoFile),
      WorkspaceDir(FALSE, SqliteDb("ok", [ItemTable |-> MarkedItemTable("q")]), NoFile),
      WorkspaceDir(FALSE, SqliteDb("ok", [cursorDiskKV |-> MarkedItemTable("r")]), NoFile) }

\* A global store holding both tables, with different values under one key.
GlobalTwoTables ==
    SqliteDb("ok",
        [cursorDiskKV |-> << Row(KeyList[6], Text(<<Run("G", 3)>>)),
                             Row(KeyList[1], Literal(OneComposerDoc)) >>,
         ItemTable |-> << Row(KeyList[6], Text(<<Run("I", 3)>>)) >>])

LookupGlobalDbs ==
    { NoFile, SqliteDb("corrupt", [cursorDiskKV |-> <<>>]), GlobalTwoTables }

LookupKeys ==
    { JNull, JStr(<<>>), JStr(ChatDataKey), JStr(KeyList[1]), JStr(KeyList[6]),
      JStr(KeyList[3]) }

LookupSources ==
    { JNull, JStr(<<>>), JStr(Global), JStr(DotDot),
      JStr(DotDot \o <<Slash>> \o GlobalStorage) }
    \cup { JStr(name) : name \in WorkspaceNames }

InitEntry ==
    /\ env \in { <<>>, WORKSPACE_PATH }
    /\ \E cfgOf \in [WorkspaceNames -> LookupConfigs] : \E globalDb \in LookupGlobalDbs :
          fsys = Disk(cfgOf, globalDb)
    /\ fsysAtRequest = fsys
    /\ body = JNull
    /\ DeleteIdle
    /\ GetIdle
    /\ globalStats = NotAnalyzed
    /\ \E key \in LookupKeys : \E source \in LookupSources :
          query = [key |-> key, source |-> source]
    /\ LookupIdle
    /\ StepIdle

NextEntry == LookupEntry

SpecEntry == InitEntry /\ [][NextEntry]_vars

----------------------------------------------------------------------------
(* Specification of the entry page's data type: formatDataType applied to  *)
(* a drawn key                                                             *)

\* The strings the rules of the classifier mention.
RuleLiterals ==
    { ChatDataKey, ComposerKey, BubbleIdPrefix, CheckpointIdPrefix,
      CodeBlockDiffPrefix, MessageRequestContextPrefix, ComposerDataPrefix }

KeySuffixes == { <<>>, <<"a","b","c">>, <<":">>, <<"x","y","z",":","1">> }

\* Keys around the rules: a literal alone, followed by a suffix, after a
\* leading character, cut short by one character, with its first letter in
\* the other case, two literals in a row, and keys no rule mentions.
ClassifierKeys ==
    { lit \o suf : lit \in RuleLiterals, suf \in KeySuffixes }
    \cup { <<"x">> \o lit : lit \in RuleLiterals }
    \cup { SubSeq(lit, 1, Len(lit) - 1) : lit \in RuleLiterals }
    \cup { <<"B">> \o Tail(BubbleIdPrefix), <<"C">> \o Tail(ComposerKey) }
    \cup { a \o b : a, b \in RuleLiterals }
    \cup { <<"u","n","r","e","l","a","t","e","d">>, <<"a">>, Unknown }

InitClassify ==
    /\ env = WORKSPACE_PATH
    /\ fsys = Disk(NoWorkspaces, NoFile)
    /\ fsysAtRequest = fsys
    /\ body = JNull
    /\ DeleteIdle
    /\ GetIdle
    /\ globalStats = NotAnalyzed
    /\ \E key \in ClassifierKeys : query = [key |-> JStr(key), source |-> JStr(Global)]
    /\ LookupIdle
    /\ StepIdle

NextClassify == ShowDataType

SpecClassify == InitClassify /\ [][NextClassify]_vars

----------------------------------------------------------------------------
(* Specification of the Workspace Pruner on ids that are paths: one DELETE *)
(* request whose ids are empty, relative or contain separators             *)

PathIds ==
    { JStr(<<>>), JStr(Dot), JStr(DotDot),
      JStr(DotDot \o <<Slash>> \o GlobalStorage),
      JStr(NameList[1] \o <<Slash>> \o DotDot),
      JStr(NameList[1] \o <<Slash>> \o StateVscdb),
      JStr(NameList[1]) }

InitTraverse ==
    /\ env = WORKSPACE_PATH
    /\ \E cfgOf \in [WorkspaceNames -> PruneConfigs] : fsys = Disk(cfgOf, EmptyGlobalDb)
    /\ fsysAtRequest = fsys
    /\ \E ids \in SeqsUpTo(PathIds, MaxPathIds) : body = JObj([workspaceIds |-> JArr(ids)])
    /\ DeleteIdle
    /\ GetIdle
    /\ globalStats = NotAnalyzed
    /\ query = NoQuery
    /\ LookupIdle
    /\ StepIdle

NextTraverse == DeleteStart \/ DeleteItem \/ DeleteRespond

SpecTraverse == InitTraverse /\ [][NextTraverse]_vars

----------------------------------------------------------------------------
(* Overlapping requests: the route handlers one await at a time *)

\* Lines 200-203: open({ filename, driver }) names no mode, so sqlite opens
\* read-write and creates the file when it is missing and its directory is
\* there; the new file is a database without tables.
NewDatabase == SqliteDb("ok", [t \in {} |-> <<>>])

OpenCreates(fs, path, dir) ==
    /\ ~Exists(fs, path)
    /\ Exists(fs, dir)
    /\ fs[StripSlash(dir)].kind = "dir"

\* The database behind an open handle, as a one-file disk: an unlinked file
\* stays readable through the handle.
Opened(path, handle) == path :> FileNode(handle.content)

\* Lines 190, 255-257: the try of the loop body spans the metadata read,
\* the open, both queries and the close, so a rejection at any of these
\* steps reaches the per-workspace catch and not the handler's outer one.
CaughtPerWorkspace_OpenOutsideTry(step) == step # "open"

CaughtPerWorkspace(step) == TRUE

ScanEntryPaths ==
    LET entry == entries[entryIdx]
    IN  [name |-> entry.name,
         isDirectory |-> entry.isDirectory,
         dir |-> PathJoin(<<env, entry.name>>),
         dbPath |-> PathJoin(<<env, entry.name, StateVscdb>>),
         workspaceJsonPath |-> PathJoin(<<env, entry.name, WorkspaceJson>>)]

\* Lines 181-188: entry.isDirectory() and existsSync(dbPath).
ScanExists ==
    /\ pcGet = "scan"
    /\ entryIdx <= Len(entries)
    /\ scan.step = "exists"
    /\ LET e == ScanEntryPaths
       IN  /\ IF ~e.isDirectory \/ DbFileMissing(fsys, e.dbPath)
              THEN /\ entryIdx' = ScanAdvance(entryIdx, Len(entries), FALSE)
                   /\ scan' = NoScan
              ELSE /\ scan' = [scan EXCEPT !.step = "meta"]
                   /\ UNCHANGED entryIdx
           /\ ioLog' = IF e.isDirectory
                       THEN Append(ioLog, IoEvent("exists", e.dbPath, NoTable))
                       ELSE ioLog
    /\ UNCHANGED <<env, fsys, pcGet, entries, workspaceDetails, errorLog, getResponse>>
    /\ UNCHANGED <<deleteVars, globalStats, lookupVars, rmTarget, page>>

\* Lines 192-198: await fs.readFile(workspaceJsonPath) and JSON.parse.
ScanMetadata ==
    /\ pcGet = "scan"
    /\ entryIdx <= Len(entries)
    /\ scan.step = "meta"
    /\ LET e == ScanEntryPaths
       IN  /\ scan' = [scan EXCEPT !.step = "open",
                                   !.folder = WorkspaceFolder(fsys, e.workspaceJsonPath)]
           /\ ioLog' = Append(ioLog, IoEvent("readFile", e.workspaceJsonPath, NoTable))
    /\ UNCHANGED <<env, fsys, getVars>>
    /\ UNCHANGED <<deleteVars, globalStats, lookupVars, rmTarget, page>>

\* Lines 200-203: await open(...).  A path that is there is opened; a
\* missing file in an existing directory is created; anything else rejects
\* and the per-workspace catch logs.
ScanOpen ==
    /\ pcGet = "scan"
    /\ entryIdx <= Len(entries)
    /\ scan.step = "open"
    /\ LET e == ScanEntryPaths
       IN  IF Exists(fsys, e.dbPath) /\ fsys[e.dbPath].kind = "file"
           THEN /\ scan' = [scan EXCEPT !.step = "chat",
                                        !.handle = [open |-> TRUE,
                                                    content |-> fsys[e.dbPath].content]]
                /\ ioLog' = Append(ioLog, IoEvent("open", e.dbPath, NoTable))
                /\ UNCHANGED <<fsys, entryIdx, errorLog, pcGet, getResponse>>
           ELSE IF OpenCreates(fsys, e.dbPath, e.dir)
           THEN /\ fsys' = (e.dbPath :> FileNode(NewDatabase)) @@ fsys
                /\ scan' = [scan EXCEPT !.step = "chat",
                                        !.handle = [open |-> TRUE, content |-> NewDatabase]]
                /\ ioLog' = Append(ioLog, IoEvent("open", e.dbPath, NoTable))
                /\ UNCHANGED <<entryIdx, errorLog, pcGet, getResponse>>
           ELSE /\ IF CaughtPerWorkspace(scan.step)
                   THEN /\ errorLog' = Append(errorLog, LogEntry("workspace", e.name))
                        /\ entryIdx' = ScanAdvance(entryIdx, Len(entries), TRUE)
                        /\ UNCHANGED <<pcGet, getResponse>>
                   ELSE \* lines 291-294: the outer catch answers
                        /\ getResponse' = Response500
                        /\ pcGet' = "done"
                        /\ UNCHANGED <<errorLog, entryIdx>>
                /\ scan' = NoScan
                /\ ioLog' = Append(ioLog, IoEvent("openFailed", e.dbPath, NoTable))
                /\ UNCHANGED fsys
    /\ UNCHANGED <<env, entries, workspaceDetails>>
    /\ UNCHANGED <<deleteVars, globalStats, lookupVars, rmTarget, page>>

\* Lines 205-221: the first db.get and the chat data read from its row.
ScanChat ==
    /\ pcGet = "scan"
    /\ entryIdx <= Len(entries)
    /\ scan.step = "chat"
    /\ LET e == ScanEntryPaths
           db == Opened(e.dbPath, scan.handle)
       IN  /\ IF QueryThrows(db, e.dbPath, "ItemTable")
              THEN /\ IF CaughtPerWorkspace(scan.step)
                      THEN /\ errorLog' = Append(errorLog, LogEntry("workspace", e.name))
                           /\ entryIdx' = ScanAdvance(entryIdx, Len(entries), TRUE)
                           /\ UNCHANGED <<pcGet, getResponse>>
                      ELSE /\ getResponse' = Response500
                           /\ pcGet' = "done"
                           /\ UNCHANGED <<errorLog, entryIdx>>
                   /\ scan' = NoScan
              ELSE /\ scan' = [scan EXCEPT
                                 !.step = "composer",
                                 !.chat = ReadData(DbGet(db, e.dbPath, "ItemTable",
                                                         ChatDataKey), "tabs")]
                   /\ UNCHANGED <<entryIdx, errorLog, pcGet, getResponse>>
           /\ ioLog' = Append(ioLog, IoEvent("get", e.dbPath, "ItemTable"))
    /\ UNCHANGED <<env, fsys, entries, workspaceDetails>>
    /\ UNCHANGED <<deleteVars, globalStats, lookupVars, rmTarget, page>>

\* Lines 223-253: the second db.get, db.close() and the push of the record.
ScanComposer ==
    /\ pcGet = "scan"
    /\ entryIdx <= Len(entries)
    /\ scan.step = "composer"
    /\ LET e == ScanEntryPaths
           db == Opened(e.dbPath, scan.handle)
           composer == ReadData(DbGet(db, e.dbPath, "ItemTable", ComposerKey),
                                "allComposers")
       IN  /\ errorLog' =
                 errorLog
                 \o (IF scan.chat.threw THEN <<LogEntry("chat", e.name)>> ELSE <<>>)
                 \o (IF composer.threw THEN <<LogEntry("composer", e.name)>> ELSE <<>>)
           /\ workspaceDetails' =
                 PushDetails(workspaceDetails,
                             WorkspaceStats(e.name, scan.folder, scan.chat, composer))
           /\ ioLog' = ioLog \o <<IoEvent("get", e.dbPath, "ItemTable"),
                                  IoEvent("close", e.dbPath, NoTable)>>
    /\ entryIdx' = ScanAdvance(entryIdx, Len(entries), FALSE)
    /\ scan' = NoScan
    /\ UNCHANGED <<env, fsys, pcGet, entries, getResponse>>
    /\ UNCHANGED <<deleteVars, globalStats, lookupVars, rmTarget, page>>

\* Lines 28-38: path.join and await fs.access(workspaceDir).
PruneAccess ==
    /\ pcDelete = "loop"
    /\ idIdx <= Len(workspaceIds)
    /\ rmTarget = <<>>
    /\ LET workspaceId == workspaceIds[idIdx]
           workspaceDir == PathJoin(<<env, workspaceId.s>>)
           typeError == workspaceId.t # "str"
           notFound == ~typeError /\ AccessFails(fsys, workspaceDir)
       IN  /\ errors' =
                 IF typeError THEN Append(errors, ThrownError(workspaceId, "TypeError"))
                 ELSE IF notFound THEN Append(errors, NotFoundError(workspaceId))
                 ELSE errors
           /\ idIdx' = IF typeError \/ notFound
                       THEN LoopAdvance(idIdx, Len(workspaceIds), TRUE)
                       ELSE idIdx
           /\ rmTarget' = IF typeError \/ notFound THEN <<>> ELSE StripSlash(workspaceDir)
    /\ UNCHANGED <<env, fsys, body, workspaceIds, pcDelete, removedWorkspaces,
                   deleteResponse, fsysAtRequest>>
    /\ UNCHANGED <<getVars, globalStats, lookupVars, ioLog, scan, page>>

\* The nodes of the tree at p that hold nothing.
Leaves(fs, p) ==
    { q \in Subtree(fs, p) : \A r \in Subtree(fs, p) : IsUnder(r, q) => r = q }

\* Lines 40-42: await fs.rm(workspaceDir, { recursive, force }) removes the
\* tree one node at a time, what a directory holds before the directory,
\* and is done when the directory itself is gone; then the id is pushed.
PruneRm ==
    /\ pcDelete = "loop"
    /\ rmTarget # <<>>
    /\ IF ~Exists(fsys, rmTarget)
       THEN /\ UNCHANGED fsys
            /\ removedWorkspaces' = Append(removedWorkspaces, workspaceIds[idIdx])
            /\ idIdx' = LoopAdvance(idIdx, Len(workspaceIds), FALSE)
            /\ rmTarget' = <<>>
       ELSE \E q \in Leaves(fsys, rmTarget) :
               /\ fsys' = Restrict(fsys, DOMAIN fsys \ {q})
               /\ IF q = rmTarget
                  THEN /\ removedWorkspaces' =
                             Append(removedWorkspaces, workspaceIds[idIdx])
                       /\ idIdx' = LoopAdvance(idIdx, Len(workspaceIds), FALSE)
                       /\ rmTarget' = <<>>
                  ELSE UNCHANGED <<removedWorkspaces, idIdx, rmTarget>>
    /\ UNCHANGED <<env, body, workspaceIds, pcDelete, errors, deleteResponse, fsysAtRequest>>
    /\ UNCHANGED <<getVars, globalStats, lookupVars, ioLog, scan, page>>

\* The workspaces of the overlapping requests: none, one with chat data and
\* a metadata file, one with an empty table.
RaceConfigs ==
    { Absent,
      WorkspaceDir(FALSE,
                   SqliteDb("ok", [ItemTable |-> ItemTableOf(Stored(Literal(TwoTabsDoc)),
                                                             NoRow)]),
                   TextFile(Literal(FolderDoc))),
      WorkspaceDir(FALSE, EmptyItemTable, NoFile) }

\* The ids of the DELETE body: the workspace names.
RaceIds == { JStr(name) : name \in WorkspaceNames }

\* One GET /api/statistics and one DELETE /api/remove-empty-workspaces on
\* the same disk, their awaits interleaved in every order.
InitRace ==
    /\ env = WORKSPACE_PATH
    /\ \E cfgOf \in [WorkspaceNames -> RaceConfigs] : fsys = Disk(cfgOf, EmptyGlobalDb)
    /\ fsysAtRequest = fsys
    /\ \E ids \in SeqsUpTo(RaceIds, MaxRaceIds) : body = JObj([workspaceIds |-> JArr(ids)])
    /\ DeleteIdle
    /\ GetIdle
    /\ globalStats = NotAnalyzed
    /\ query = NoQuery
    /\ LookupIdle
    /\ StepIdle

NextRace ==
    \/ GetStart \/ ScanExists \/ ScanMetadata \/ ScanOpen \/ ScanChat \/ ScanComposer
    \/ GetFinish
    \/ DeleteStart \/ PruneAccess \/ PruneRm \/ DeleteRespond

SpecRace == InitRace /\ [][NextRace]_vars

----------------------------------------------------------------------------
(* The statistics page: fetchStatistics and handleRemoveEmptyWorkspaces *)

NoEmptyWorkspaces == "No empty workspaces to remove"

\* Lines 150-153 and 203-205: errorData.error || fallback, the message the
\* route sent with its status
ErrorOf(response) == [sentWith |-> response.status]

\* Lines 146-164: the page's fetch of /api/statistics has been answered.
PageLoaded ==
    /\ page.phase = "loading"
    /\ pcGet = "done"
    /\ page' = IF getResponse.status = 200
               THEN [page EXCEPT !.phase = "ready", !.statistics = getResponse]
               ELSE [page EXCEPT !.phase = "ready", !.error = ErrorOf(getResponse)]
    /\ UNCHANGED <<env, fsys, deleteVars, getVars, globalStats, lookupVars, ioLog, stepVars>>

\* Lines 169-171: the ids of the records without chats and without composers
EmptyWorkspaces(details) ==
    LET keep == { i \in 1..Len(details) : ~details[i].hasChats /\ ~details[i].hasComposers }
        RECURSIVE Ids(_)
        Ids(i) == IF i > Len(details) THEN <<>>
                  ELSE (IF i \in keep THEN <<details[i].id>> ELSE <<>>) \o Ids(i + 1)
    IN  Ids(1)

\* Lines 193-199: the body of the DELETE request, JSON.stringify of
\* { workspaceIds: emptyWorkspaces }
RemoveBody(emptyWorkspaces) ==
    JObj([workspaceIds |->
            JArr([i \in 1..Len(emptyWorkspaces) |-> JStr(emptyWorkspaces[i])])])

\* Lines 165-199: a click on "Remove All Empty Workspaces", with the user's
\* answer to window.confirm.  The request is sent with the ids of the
\* statistics the page holds.
PageRemove ==
    /\ page.phase = "ready"
    /\ pcDelete = "unsent"
    /\ \E confirmed \in BOOLEAN :
          LET emptyWorkspaces ==
                  IF page.statistics = NoStatistics THEN <<>>
                  ELSE EmptyWorkspaces(page.statistics.workspaceDetails)
          IN  IF page.statistics = NoStatistics
              THEN /\ page' = [page EXCEPT !.phase = "finished"]
                   /\ UNCHANGED <<body, pcDelete>>
              ELSE IF Len(emptyWorkspaces) = 0
              THEN /\ page' = [page EXCEPT !.phase = "finished", !.error = NoEmptyWorkspaces]
                   /\ UNCHANGED <<body, pcDelete>>
              ELSE IF ~confirmed
              THEN /\ page' = [page EXCEPT !.phase = "declined"]
                   /\ UNCHANGED <<body, pcDelete>>
              ELSE /\ page' = [page EXCEPT !.phase = "removing", !.error = JNull]
                   /\ body' = RemoveBody(emptyWorkspaces)
                   /\ pcDelete' = "idle"
    /\ UNCHANGED <<env, fsys, fsysAtRequest, workspaceIds, idIdx, removedWorkspaces,
                   errors, deleteResponse>>
    /\ UNCHANGED <<getVars, globalStats, lookupVars, ioLog, stepVars>>

\* Lines 201-210: the DELETE has been answered; on success the page fetches
\* /api/statistics again.
PageRemoved ==
    /\ page.phase = "removing"
    /\ pcDelete = "done"
    /\ IF deleteResponse.status = 200
       THEN /\ page' = [page EXCEPT !.phase = "refreshing"]
            /\ pcGet' = "idle"
            /\ entries' = <<>>
            /\ entryIdx' = 1
            /\ workspaceDetails' = <<>>
            /\ errorLog' = <<>>
            /\ getResponse' = NoResponse
       ELSE /\ page' = [page EXCEPT !.phase = "finished", !.error = ErrorOf(deleteResponse)]
            /\ UNCHANGED getVars
    /\ UNCHANGED <<env, fsys, deleteVars, globalStats, lookupVars, ioLog, stepVars>>

\* Lines 206-210: the second fetch has been answered.
PageRefreshed ==
    /\ page.phase = "refreshing"
    /\ pcGet = "done"
    /\ page' = IF getResponse.status = 200
               THEN [page EXCEPT !.phase = "finished", !.statistics = getResponse]
               ELSE [page EXCEPT !.phase = "finished"]
    /\ UNCHANGED <<env, fsys, deleteVars, getVars, globalStats, lookupVars, ioLog, stepVars>>

\* Not the application: Cursor stores chat data in a workspace whose
\* database holds none.
CursorWritesChat ==
    \E name \in WorkspaceNames :
        LET dbPath == PathJoin(<<env, name, StateVscdb>>)
        IN  /\ Exists(fsys, dbPath)
            /\ ~QueryThrows(fsys, dbPath, "ItemTable")
            /\ ~DbGet(fsys, dbPath, "ItemTable", ChatDataKey).found
            /\ fsys' = [fsys EXCEPT ![dbPath].content.tables.ItemTable =
                           Append(@, Row(ChatDataKey, Literal(TwoTabsDoc)))]
    /\ UNCHANGED <<env, deleteVars, getVars, globalStats, lookupVars, ioLog, stepVars, page>>

\* The workspaces the page is opened on: none, one without data, one with
\* composer data, one whose database cannot be read.
PageConfigs ==
    { Absent,
      WorkspaceDir(FALSE, EmptyItemTable, NoFile),
      WorkspaceDir(FALSE,
                   SqliteDb("ok", [ItemTable |-> ItemTableOf(NoRow,
                                                             Stored(Literal(OneComposerDoc)))]),
                   NoFile),
      WorkspaceDir(FALSE, SqliteDb("corrupt", [ItemTable |-> <<>>]), NoFile) }

\* The page is opened: its fetch is under way and no DELETE has been sent.
InitPage ==
    /\ env = WORKSPACE_PATH
    /\ \E cfgOf \in [WorkspaceNames -> PageConfigs] : fsys = Disk(cfgOf, EmptyGlobalDb)
    /\ fsysAtRequest = fsys
    /\ body = JNull
    /\ pcDelete = "unsent"
    /\ workspaceIds = <<>>
    /\ idIdx = 1
    /\ removedWorkspaces = <<>>
    /\ errors = <<>>
    /\ deleteResponse = NoResponse
    /\ GetIdle
    /\ globalStats = NotAnalyzed
    /\ query = NoQuery
    /\ LookupIdle
    /\ StepIdle

NextPage ==
    \/ GetStart \/ GetEntry \/ GetFinish
    \/ PageLoaded \/ PageRemove \/ PageRemoved \/ PageRefreshed
    \/ DeleteStart \/ DeleteItem \/ DeleteRespond
    \/ CursorWritesChat

SpecPage == InitPage /\ [][NextPage]_vars

----------------------------------------------------------------------------
(* Properties of the Workspace Pruner, checked under SpecPrune *)

RECURSIVE SumOver(_, _)
SumOver(S, f) ==
    IF S = {} THEN 0
    ELSE LET x == CHOOSE y \in S : TRUE IN f[x] + SumOver(S \ {x}, f)

Range(seq) == { seq[i] : i \in 1..Len(seq) }

Configured == Len(env) > 0

\* The path the pruner derives from an id of the batch.
DirOf(workspaceId) == PathJoin(<<env, workspaceId.s>>)

DirectoryExists(fs, workspaceId) ==
    workspaceId.t = "str" /\ Exists(fs, DirOf(workspaceId))

HasErrorFor(workspaceId) == \E i \in 1..Len(errors) : errors[i].workspaceId = workspaceId

Answered200 == pcDelete = "done" /\ deleteResponse.status = 200

\* C1 as stated: in the answer to a DELETE batch, every id whose directory
\* did not exist under the workspace root has an errors entry and is not in
\* removedWorkspaces, and every id whose directory existed is in
\* removedWorkspaces and its directory is gone.
C1_PerItemOutcome ==
    Answered200 =>
        \A k \in 1..Len(workspaceIds) :
            LET id == workspaceIds[k]
            IN  IF DirectoryExists(fsysAtRequest, id)
                THEN /\ ~Exists(fsys, DirOf(id))
                     /\ id \in Range(deleteResponse.removedWorkspaces)
                ELSE /\ HasErrorFor(id)
                     /\ id \notin Range(deleteResponse.removedWorkspaces)

\* One loop iteration of the pruner, as a step of the model.
ItemStep == pcDelete = "loop" /\ idIdx <= Len(workspaceIds) /\ idIdx' # idIdx

\* errors' is errors with one entry for id appended.
ErrorAddedFor(id) ==
    /\ Len(errors') = Len(errors) + 1
    /\ SubSeq(errors', 1, Len(errors)) = errors
    /\ errors'[Len(errors')].workspaceId = id

C1_ItemOutcome ==
    LET id == workspaceIds[idIdx]
    IN  IF id.t # "str" \/ ~Exists(fsys, DirOf(id))
        THEN /\ ErrorAddedFor(id)
             /\ removedWorkspaces' = removedWorkspaces
             /\ fsys' = fsys
        ELSE IF RmThrows(fsys, DirOf(id))
             THEN /\ ErrorAddedFor(id)
                  /\ removedWorkspaces' = removedWorkspaces
             ELSE /\ removedWorkspaces' = Append(removedWorkspaces, id)
                  /\ errors' = errors
                  /\ ~Exists(fsys', DirOf(id))

C1_RemovedStayGone ==
    \A k \in 1..Len(removedWorkspaces) : ~Exists(fsys, DirOf(removedWorkspaces[k]))

C1_ExampleBatch ==
    (/\ Answered200
     /\ Len(workspaceIds) = 3
     /\ Cardinality(Range(workspaceIds)) = 3
     /\ Cardinality({ k \in 1..3 : workspaceIds[k].t = "str"
                                    /\ Exists(fsysAtRequest, DirOf(workspaceIds[k])) }) = 2
     /\ \A k \in 1..3 : workspaceIds[k].t = "str"
                          => ~RmThrows(fsysAtRequest, DirOf(workspaceIds[k])))
    => deleteResponse.removedCount = 2 /\ Len(deleteResponse.errors) = 1

\* C1 as amended: when an id of the batch is processed, if nothing exists at
\* its path under the workspace root (or the id is no string) an errors
\* entry for it is added and nothing is removed; if something exists there,
\* either its removal succeeds, the path is gone and the id is added to
\* removedWorkspaces, or the removal throws, an errors entry is added and
\* the id is not added to removedWorkspaces.  What was removed stays gone,
\* and 3 distinct ids of which 1 is missing and none fails give
\* removedCount = 2 and 1 error.
C1_PerItemOutcomeAmended ==
    /\ [][ItemStep => C1_ItemOutcome]_vars
    /\ [](C1_RemovedStayGone /\ C1_ExampleBatch)

\* A batch of 3 ids, 1 missing, answered with removedCount = 2 and 1 error.
C1_Witness ==
    /\ Answered200
    /\ Len(workspaceIds) = 3
    /\ deleteResponse.removedCount = 2
    /\ Len(deleteResponse.errors) = 1
    /\ deleteResponse.errors[1].error = "Workspace directory not found"

BodyHasList == body.t = "obj" /\ IsArray(GetProp(body, "workspaceIds"))

\* C2: the batch is best-effort.  While the loop runs every processed item
\* has been recorded in exactly one of removedWorkspaces and errors; a
\* configured request with a list is answered only after the last item, with
\* the success body, removedCount = length of removedWorkspaces and
\* removedCount + errors.length = length of workspaceIds.
C2_BestEffortBatch ==
    /\ pcDelete = "loop" =>
          /\ idIdx <= Len(workspaceIds) + 1
          /\ Len(removedWorkspaces) + Len(errors) = idIdx - 1
    /\ (pcDelete = "done" /\ Configured /\ BodyHasList) =>
          /\ deleteResponse.status = 200
          /\ deleteResponse.success
          /\ workspaceIds = GetProp(body, "workspaceIds").items
          /\ idIdx = Len(workspaceIds) + 1
          /\ deleteResponse.removedWorkspaces = removedWorkspaces
          /\ deleteResponse.errors = errors
          /\ deleteResponse.removedCount = Len(deleteResponse.removedWorkspaces)
          /\ deleteResponse.removedCount + Len(deleteResponse.errors)
                 = Len(workspaceIds)
          /\ \A k \in 1..Len(workspaceIds) :
                 \/ workspaceIds[k] \in Range(removedWorkspaces)
                 \/ HasErrorFor(workspaceIds[k])

\* A repeated id whose removal throws twice, followed by an id that is
\* still removed.
C2_Witness ==
    /\ Answered200
    /\ Len(workspaceIds) = 3
    /\ workspaceIds[1] = workspaceIds[2]
    /\ Len(errors) = 2
    /\ errors[1].error = "rm failed" /\ errors[2].error = "rm failed"
    /\ removedWorkspaces = <<workspaceIds[3]>>

\* What the body gives for workspaceIds: missing when the body is no JSON
\* text, null, or a value without that property.
WorkspaceIdsMissingOrNotAList ==
    \/ body = NotJson
    \/ body = JNull
    \/ ~IsArray(GetProp(body, "workspaceIds"))

\* C3 as stated: a request whose workspaceIds is missing or not a list is
\* answered 400, whatever the body is, and then, as when the root path is
\* not configured, nothing on the disk is deleted.
C3_ClientErrorOnBadBody ==
    (pcDelete = "done" /\ (~Configured \/ WorkspaceIdsMissingOrNotAList)) =>
        /\ deleteResponse.status = 400
        /\ fsys = fsysAtRequest

----------------------------------------------------------------------------
(* Properties of the Global Database Analyzer, checked under SpecAnalyze *)

GlobalReadable ==
    Exists(fsys, GlobalDbPath) /\ ~QueryThrows(fsys, GlobalDbPath, "cursorDiskKV")

\* The rows of the global table on the disk.
GlobalRows == IF GlobalReadable THEN DbAll(fsys, GlobalDbPath, "cursorDiskKV") ELSE <<>>

IsComposerRow(i) == StartsWith(GlobalRows[i].key, ComposerDataPrefix)
RowBytes(i) ==
    IF GlobalRows[i].value.isNull THEN 0 ELSE ByteLength(GlobalRows[i].value.text)

\* Positions of the non-composer rows with a non-null value, all and by type.
OtherRows == { i \in 1..Len(GlobalRows) : ~IsComposerRow(i) /\ ~GlobalRows[i].value.isNull }
OtherRowsOf(type) == { i \in OtherRows : KeyType(GlobalRows[i].key) = type }
\* Those of them the scan counts: the value is not the empty string either.
CountedRowsOf(type) == { i \in OtherRowsOf(type) : RowBytes(i) > 0 }
AccumulatedBytes(type) == SumOver(OtherRowsOf(type), [i \in OtherRowsOf(type) |-> RowBytes(i)])

G == globalStats.stats

\* C4 as stated: otherEntries + composerEntries = totalEntries, for every
\* table, rows with null or empty values included.
C4_EntriesAddUp ==
    globalStats.analyzed => G.otherEntries + G.composerEntries = G.totalEntries

\* C5 as stated: after the threshold filter the three maps have the same
\* types; a type is retained exactly when the bytes of its non-composer,
\* non-null rows add up to at least 0.1 MB; a retained type keeps the count
\* and the size the scan accumulated for it.
C5_ThresholdFilter ==
    globalStats.analyzed =>
        /\ DOMAIN G.entriesByType = DOMAIN G.entriesSizeByType
        /\ DOMAIN G.entriesByType = DOMAIN G.sampleKeys
        /\ DOMAIN G.entriesByType =
              { type \in { KeyType(GlobalRows[i].key) : i \in OtherRows } :
                  10 * AccumulatedBytes(type) >= MBytes }
        /\ \A type \in DOMAIN G.entriesByType :
              /\ G.entriesByType[type] = Cardinality(CountedRowsOf(type))
              /\ G.entriesSizeByType[type] = AccumulatedBytes(type)

\* Position of a key in the scan (the keys of a table are distinct).
ScanPos(key) == CHOOSE i \in 1..Len(GlobalRows) : GlobalRows[i].key = key

LargestKeys == { G.largestEntries[i].key : i \in 1..Len(G.largestEntries) }

\* C6: largestEntries has at most 10 elements, each a row of the table with
\* its size, in non-increasing order of size, rows of equal size in scan
\* order, and no row left out is strictly larger than one that is in it.
C6_LargestEntries ==
    globalStats.analyzed =>
        LET L == G.largestEntries
        IN  /\ Len(L) <= 10
            /\ \A i \in 1..Len(L) :
                  /\ \E r \in 1..Len(GlobalRows) : GlobalRows[r].key = L[i].key
                  /\ L[i].sizeMB = RowBytes(ScanPos(L[i].key))
            /\ \A i, j \in 1..Len(L) :
                  i < j => /\ L[i].sizeMB >= L[j].sizeMB
                           /\ L[i].key # L[j].key
                           /\ (L[i].sizeMB = L[j].sizeMB
                                 => ScanPos(L[i].key) < ScanPos(L[j].key))
            /\ \A r \in 1..Len(GlobalRows) :
                  GlobalRows[r].key \notin LargestKeys
                      => \A i \in 1..Len(L) : RowBytes(r) <= L[i].sizeMB

\* More than 10 rows: the list is cut to 10, holds rows of equal size, and
\* leaves out a row as large as its last element.
C6_Witness ==
    /\ globalStats.analyzed
    /\ Len(GlobalRows) > 10
    /\ Len(G.largestEntries) = 10
    /\ G.largestEntries[1].sizeMB > G.largestEntries[10].sizeMB
    /\ G.largestEntries[9].sizeMB = G.largestEntries[10].sizeMB
    /\ \E r \in 1..Len(GlobalRows) :
          /\ GlobalRows[r].key \notin LargestKeys
          /\ RowBytes(r) = G.largestEntries[10].sizeMB

RECURSIVE KeysAt(_)
KeysAt(positions) ==
    IF Len(positions) = 0 THEN <<>>
    ELSE <<GlobalRows[Head(positions)].key>> \o KeysAt(Tail(positions))

\* C7 as stated: the samples of a retained type are the first (up to 3)
\* keys, in scan order, of the non-composer rows of that type whose value is
\* not null.
C7_SampleKeys ==
    globalStats.analyzed =>
        \A type \in DOMAIN G.sampleKeys :
            LET positions == SortedSeq(OtherRowsOf(type))
            IN  /\ Len(G.sampleKeys[type]) <= 3
                /\ G.sampleKeys[type] =
                       KeysAt(SubSeq(positions, 1, Min(3, Len(positions))))

----------------------------------------------------------------------------
(* Properties of GET /api/statistics, checked under SpecStats *)

WorkspaceDirOf(name) == PathJoin(<<env, name>>)
DbPathOf(name) == PathJoin(<<env, name, StateVscdb>>)

\* The root entry `name` is a directory that holds the database file.
IsWorkspace(name) ==
    /\ Exists(fsys, WorkspaceDirOf(name))
    /\ fsys[WorkspaceDirOf(name)].kind = "dir"
    /\ Exists(fsys, DbPathOf(name))

Readable(name) == IsWorkspace(name) /\ ~QueryThrows(fsys, DbPathOf(name), "ItemTable")

\* Position of a name in the directory listing.
ListingPos(name) == CHOOSE e \in 1..Len(entries) : entries[e].name = name

RecordsOf(name) == { i \in 1..Len(workspaceDetails) : workspaceDetails[i].id = name }
ErrorsLoggedFor(name) == { i \in 1..Len(errorLog) : errorLog[i].name = name }

\* C8: a record is produced only for a root entry that is a directory
\* holding the database file; an entry that is no directory, or a directory
\* without the file, gets no record and no logged error; no directory gets
\* two records; the records are in directory-listing order.
C8_ScannerOutput ==
    /\ \A i \in 1..Len(workspaceDetails) :
          /\ \E e \in 1..Len(entries) : entries[e].name = workspaceDetails[i].id
          /\ IsWorkspace(workspaceDetails[i].id)
    /\ \A e \in 1..Len(entries) :
          ~IsWorkspace(entries[e].name) =>
              RecordsOf(entries[e].name) = {} /\ ErrorsLoggedFor(entries[e].name) = {}
    /\ \A i, j \in 1..Len(workspaceDetails) :
          i < j => /\ workspaceDetails[i].id # workspaceDetails[j].id
                   /\ ListingPos(workspaceDetails[i].id) < ListingPos(workspaceDetails[j].id)
    /\ (pcGet = "done" /\ getResponse.status = 200) =>
          getResponse.workspaceDetails = workspaceDetails

\* A listing answered with the directory without database skipped silently
\* and the workspace listed after it recorded.
C8_Witness ==
    /\ pcGet = "done" /\ getResponse.status = 200
    /\ Len(entries) = 2
    /\ fsys[WorkspaceDirOf(entries[1].name)].kind = "dir"
    /\ ~IsWorkspace(entries[1].name)
    /\ entries[1].name = NameList[2]
    /\ Len(getResponse.workspaceDetails) = 1
    /\ getResponse.workspaceDetails[1].id = entries[2].name
    /\ errorLog = <<>>

ChatRowOf(name) == DbGet(fsys, DbPathOf(name), "ItemTable", ChatDataKey)
ComposerRowOf(name) == DbGet(fsys, DbPathOf(name), "ItemTable", ComposerKey)

HasValue(row) == row.found /\ ~row.value.isNull /\ StringLength(row.value.text) > 0
Malformed(row) == HasValue(row) /\ ~JsonParse(row.value).ok

\* The count a well-formed stored document gives for its list field.
ListCount(row, listField) ==
    IF HasValue(row) /\ JsonParse(row.value).ok /\ JsonParse(row.value).json.t = "obj"
    THEN LengthOrZero(GetProp(JsonParse(row.value).json, listField))
    ELSE 0

\* C9: malformed JSON in the chat-data (composer-data) value of a workspace
\* gives chatCount (composerCount) = 0 in that workspace's record, which is
\* still emitted; the other lookup of the workspace is still made; the scan
\* goes on to the end, every readable workspace gets its record and the
\* request is answered 200.
C9_MalformedJson ==
    (pcGet = "done" /\ Configured /\ Exists(fsys, env)) =>
        /\ getResponse.status = 200
        /\ entryIdx = Len(entries) + 1
        /\ \A e \in 1..Len(entries) :
              LET name == entries[e].name
                  records == { i \in 1..Len(getResponse.workspaceDetails) :
                                 getResponse.workspaceDetails[i].id = name }
              IN  Readable(name) =>
                    /\ Cardinality(records) = 1
                    /\ \A i \in records :
                          LET w == getResponse.workspaceDetails[i]
                          IN  /\ Malformed(ChatRowOf(name)) =>
                                    /\ w.chatCount = 0
                                    /\ w.hasChats
                                    /\ w.hasComposers = HasValue(ComposerRowOf(name))
                                    /\ w.composerCount =
                                           ListCount(ComposerRowOf(name), "allComposers")
                              /\ Malformed(ComposerRowOf(name)) =>
                                    /\ w.composerCount = 0
                                    /\ w.hasComposers
                                    /\ w.hasChats = HasValue(ChatRowOf(name))
                                    /\ w.chatCount = ListCount(ChatRowOf(name), "tabs")

\* A workspace with malformed chat data and one composer, listed first, and
\* a second workspace recorded after it.
C9_Witness ==
    /\ pcGet = "done" /\ getResponse.status = 200
    /\ Len(getResponse.workspaceDetails) = 2
    /\ Malformed(ChatRowOf(getResponse.workspaceDetails[1].id))
    /\ getResponse.workspaceDetails[1].chatCount = 0
    /\ getResponse.workspaceDetails[1].composerCount = 1
    /\ getResponse.workspaceDetails[2].chatCount = 2

\* C10: the four presence categories partition the records: their counts
\* add up to totalWorkspaces, which is the number of records, and
\* workspacesWithChats = both + onlyChats, workspacesWithComposers = both +
\* onlyComposers.
C10_Partition ==
    (pcGet = "done" /\ getResponse.status = 200) =>
        LET R == getResponse
        IN  /\ R.totalWorkspaces = Len(R.workspaceDetails)
            /\ R.workspacesWithBoth + R.workspacesWithOnlyChats
                 + R.workspacesWithOnlyComposers + R.workspacesWithNeither
                   = R.totalWorkspaces
            /\ R.workspacesWithChats = R.workspacesWithBoth + R.workspacesWithOnlyChats
            /\ R.workspacesWithComposers
                   = R.workspacesWithBoth + R.workspacesWithOnlyComposers

\* Two records of different categories: one with both, one with chats only.
C10_Witness ==
    /\ pcGet = "done" /\ getResponse.status = 200
    /\ getResponse.totalWorkspaces = 2
    /\ getResponse.workspacesWithBoth = 1
    /\ getResponse.workspacesWithOnlyChats = 1

----------------------------------------------------------------------------
(* Properties of GET /api/database-entry, checked under SpecEntry *)

LookupDone == pcLookup = "done"

\* The file root/<source>/state.vscdb as the operating system resolves it,
\* and the global store root/../globalStorage/state.vscdb.
SourceFile ==
    PathNormalize(env \o <<Slash>> \o SourceOrEmpty(query.source)
                      \o <<Slash>> \o StateVscdb)
GlobalFile ==
    PathNormalize(env \o <<Slash>> \o DotDot \o <<Slash>> \o GlobalStorage
                      \o <<Slash>> \o StateVscdb)

IsGlobalSource == query.source = JStr(Global)

RoutedFile == IF IsGlobalSource THEN GlobalFile ELSE SourceFile
RoutedTable == IF IsGlobalSource THEN "cursorDiskKV" ELSE "ItemTable"

Statements == { i \in 1..Len(ioLog) : ioLog[i].op \in {"get", "all"} }
Opens == { i \in 1..Len(ioLog) : ioLog[i].op \in {"open", "openFailed"} }

\* C11: lookup routing.  With source = "global" every call of the lookup
\* goes to root/../globalStorage/state.vscdb and its statement reads table
\* cursorDiskKV; with any other source every call goes to
\* root/<source>/state.vscdb and its statement reads table ItemTable; for a
\* source that names a workspace this is the database inside that
\* workspace's directory; the entry answered is the row of that table of
\* that file.
C11_LookupRouting ==
    LookupDone =>
        /\ \A i \in 1..Len(ioLog) : ioLog[i].path = RoutedFile
        /\ \A i \in Statements : ioLog[i].table = RoutedTable
        /\ Cardinality(Opens) <= 1
        /\ (Configured /\ query.source # JNull /\ query.source.s \in WorkspaceNames) =>
               RoutedFile = env \o <<Slash>> \o query.source.s
                                \o <<Slash>> \o StateVscdb
        /\ lookupResponse.status = 200 =>
               /\ Statements # {}
               /\ lookupResponse.rawValue
                     = DbGet(fsysAtRequest, RoutedFile, RoutedTable, query.key.s).value

\* A lookup with source "global" answered from cursorDiskKV while the global
\* file holds another value under the same key in ItemTable, and a
\* workspace holds a third.
C11_Witness ==
    /\ LookupDone
    /\ IsGlobalSource
    /\ lookupResponse.status = 200
    /\ lookupResponse.rawValue = Text(<<Run("G", 3)>>)
    /\ DbGet(fsys, GlobalFile, "ItemTable", query.key.s).value = Text(<<Run("I", 3)>>)
    /\ Exists(fsys, DbPathOf(NameList[1]))
    /\ ~QueryThrows(fsys, DbPathOf(NameList[1]), "ItemTable")

\* C12: status outcomes of the lookup.  A missing key is answered 400 with
\* no call made on any file; with the root configured, a database file that
\* does not exist is answered 404 without an open; a key without a row in
\* the routed table is answered 404; a failing open or statement is answered
\* 500 with an error body, never with an entry.
C12_LookupStatus ==
    LookupDone =>
        /\ ParamMissing(query.key) =>
               lookupResponse.status = 400 /\ ioLog = <<>>
        /\ (~ParamMissing(query.key) /\ Configured) =>
               IF ~Exists(fsysAtRequest, RoutedFile)
               THEN /\ lookupResponse.status = 404
                    /\ Opens = {} /\ Statements = {}
               ELSE IF QueryThrows(fsysAtRequest, RoutedFile, RoutedTable)
               THEN /\ lookupResponse.status = 500
                    /\ DOMAIN lookupResponse = {"status", "error"}
               ELSE ~DbGet(fsysAtRequest, RoutedFile, RoutedTable, query.key.s).found
                        => lookupResponse.status = 404

\* A lookup in a workspace whose database cannot be queried: the file was
\* opened and the answer is 500.
C12_Witness ==
    /\ LookupDone
    /\ query.source = JStr(NameList[1])
    /\ Exists(fsys, RoutedFile)
    /\ QueryThrows(fsys, RoutedFile, "ItemTable")
    /\ Opens # {}
    /\ lookupResponse.status = 500

----------------------------------------------------------------------------
(* Further properties of GET /api/statistics, checked under SpecStats *)

GetDone == pcGet = "done"

RootListable == Exists(fsys, env) /\ fsys[StripSlash(env)].kind = "dir"

\* C13: with the workspace root not configured the statistics request makes
\* no call on the file system or on a database, keeps no listing and no
\* record, and is answered 400; with a root that cannot be listed it is
\* answered 500; otherwise it is answered 200 with totalWorkspaces equal to
\* the number of records in workspaceDetails.
C13_StatisticsStatus ==
    /\ ~Configured => ioLog = <<>> /\ entries = <<>> /\ workspaceDetails = <<>>
    /\ GetDone =>
          IF ~Configured THEN getResponse = Response400
          ELSE IF ~RootListable THEN getResponse = Response500
          ELSE /\ getResponse.status = 200
               /\ getResponse.workspaceDetails = workspaceDetails
               /\ getResponse.totalWorkspaces = Len(getResponse.workspaceDetails)

\* A configured root that does not exist: the listing was tried and the
\* request answered 500.
C13_Witness ==
    /\ GetDone
    /\ Configured
    /\ ~RootListable
    /\ ioLog = <<IoEvent("readdir", env, NoTable)>>
    /\ getResponse.status = 500

----------------------------------------------------------------------------
(* Properties of the Key Classifier, checked under SpecClassify *)

\* The rules of the classifier as the specification orders them: the two
\* exact keys first, then the five prefixes.
OrderedRules ==
    << [exact |-> TRUE, text |-> ChatDataKey, category |-> "Chat Data"],
       [exact |-> TRUE, text |-> ComposerKey, category |-> "Composer Metadata"],
       [exact |-> FALSE, text |-> BubbleIdPrefix, category |-> "Chat Message"],
       [exact |-> FALSE, text |-> CheckpointIdPrefix, category |-> "Checkpoint"],
       [exact |-> FALSE, text |-> CodeBlockDiffPrefix, category |-> "Code Diff"],
       [exact |-> FALSE, text |-> MessageRequestContextPrefix,
        category |-> "Message Context"],
       [exact |-> FALSE, text |-> ComposerDataPrefix, category |-> "Composer Data"] >>

RuleMatches(rule, key) ==
    IF rule.exact THEN key = rule.text ELSE StartsWith(key, rule.text)

MatchingRules(key) == { r \in 1..Len(OrderedRules) : RuleMatches(OrderedRules[r], key) }

\* First match wins; Unknown when no rule matches.
ClassifyInOrder(key) ==
    IF MatchingRules(key) = {} THEN "Unknown"
    ELSE OrderedRules[CHOOSE r \in MatchingRules(key) :
                          \A q \in MatchingRules(key) : r <= q].category

\* C14: for every key at most one rule of the classifier matches, so exactly
\* one category applies, and the category the page shows is the one the
\* ordered rules give (exact keys first, then the prefixes, else Unknown).
C14_KeyClassifier ==
    dataType # NotShown =>
        /\ Cardinality(MatchingRules(query.key.s)) <= 1
        /\ dataType = ClassifyInOrder(query.key.s)

\* The exact composer.composerData key shown as Composer Metadata, not as
\* Composer Data.
C14_Witness ==
    /\ query.key.s = ComposerKey
    /\ dataType = "Composer Metadata"

----------------------------------------------------------------------------
(* Properties of the Workspace Pruner on path ids, checked under           *)
(* SpecTraverse                                                            *)

ProperDescendantOfRoot(p) == p # env /\ IsUnder(p, env)

\* What the request has removed from the disk so far.
RemovedPaths == DOMAIN fsysAtRequest \ DOMAIN fsys

\* C15 as stated: whatever the ids are, the pruner removes only proper
\* descendants of the workspace root, never the root, its parent or a
\* sibling such as globalStorage, and every id reported as removed names a
\* proper descendant of the root.
C15_DeletesOnlyUnderRoot ==
    /\ \A p \in RemovedPaths : ProperDescendantOfRoot(p)
    /\ \A k \in 1..Len(removedWorkspaces) :
          ProperDescendantOfRoot(DirOf(removedWorkspaces[k]))

----------------------------------------------------------------------------
(* Database handles, checked under SpecStats *)

OpensOf(path) == { i \in 1..Len(ioLog) : ioLog[i].op = "open" /\ ioLog[i].path = path }
ClosesOf(path) == { i \in 1..Len(ioLog) : ioLog[i].op = "close" /\ ioLog[i].path = path }

\* The files with a handle that was opened and not closed.
LeakedHandles ==
    { path \in { ioLog[i].path : i \in 1..Len(ioLog) } :
        Cardinality(OpensOf(path)) > Cardinality(ClosesOf(path)) }

\* C16 as stated: every database handle a request opens is released on
\* every exit path: after each workspace of the scan, and when the request
\* has finished, no handle is left open, also when a statement threw.
C16_HandlesReleased == LeakedHandles = {}

----------------------------------------------------------------------------
(* Further properties of the Global Database Analyzer, checked under       *)
(* SpecAnalyze                                                             *)

\* Positions of the composer rows with a non-null value.
ComposerRows == { i \in 1..Len(GlobalRows) : IsComposerRow(i) /\ ~GlobalRows[i].value.isNull }

BytesOf(rows) == SumOver(rows, [i \in rows |-> RowBytes(i)])

\* C17 as stated: rows with a null value are in no count and no size sum;
\* every row with a non-null value, the empty string included, is counted
\* once, in composerEntries when its key starts with "composerData:" and in
\* otherEntries otherwise, and its bytes are added to the matching size sum
\* and to the total size.
C17_GlobalCounts ==
    globalStats.analyzed =>
        /\ G.composerEntries = Cardinality(ComposerRows)
        /\ G.otherEntries = Cardinality(OtherRows)
        /\ G.composerDataSizeMB = BytesOf(ComposerRows)
        /\ G.otherDataSizeMB = BytesOf(OtherRows)
        /\ G.totalSizeMB = BytesOf(ComposerRows) + BytesOf(OtherRows)

\* C18 as stated: the rows ranked in largestEntries are non-composer rows: no
\* key of largestEntries starts with "composerData:".
C18_NoComposerInLargest ==
    globalStats.analyzed =>
        \A i \in 1..Len(G.largestEntries) :
            ~StartsWith(G.largestEntries[i].key, ComposerDataPrefix)

----------------------------------------------------------------------------
(* The global store in the statistics answer, checked under SpecStats *)

GlobalPresent == Exists(fsys, GlobalDbPath)

\* The types the threshold filter retains on the rows of the disk.
TypesOverThreshold ==
    { type \in { KeyType(GlobalRows[i].key) : i \in OtherRows } :
        AtLeastMinSize(AccumulatedBytes(type)) }

\* C19 as stated: when the global store file is present and opening or
\* querying it fails, the statistics answer carries the GlobalStats of an
\* absent file (all zero, all empty) and the request is answered 200 with
\* the workspace statistics; and the GlobalStats answered is always either
\* that zero result or a result that went through the threshold filter and
\* the ranking, never one the scan left half-way.
C19_UnreadableGlobalStore ==
    (GetDone /\ Configured /\ RootListable) =>
        /\ getResponse.status = 200
        /\ getResponse.workspaceDetails = workspaceDetails
        /\ (GlobalPresent /\ QueryThrows(fsys, GlobalDbPath, "cursorDiskKV")) =>
               getResponse.globalDatabase = ZeroStats
        /\ \/ getResponse.globalDatabase = ZeroStats
           \/ /\ DOMAIN getResponse.globalDatabase.entriesByType = TypesOverThreshold
              /\ DOMAIN getResponse.globalDatabase.sampleKeys = TypesOverThreshold
              /\ (getResponse.globalDatabase.totalSizeMB > 0
                    => Len(getResponse.globalDatabase.largestEntries) > 0)

----------------------------------------------------------------------------
(* Failure isolation of the Workspace Scanner, checked under SpecStats *)

MetadataPathOf(name) == PathJoin(<<env, name, WorkspaceJson>>)

\* The metadata file of a workspace is there and holds a JSON document
\* other than null.
MetadataUsable(name) ==
    /\ Exists(fsys, MetadataPathOf(name))
    /\ fsys[MetadataPathOf(name)].kind = "file"
    /\ JsonParse(fsys[MetadataPathOf(name)].content.text).ok
    /\ JsonParse(fsys[MetadataPathOf(name)].content.text).json # JNull

FailedWorkspaces == { e \in 1..Len(entries) : IsWorkspace(entries[e].name)
                                              /\ ~Readable(entries[e].name) }

ReadableWorkspaces == { e \in 1..Len(entries) : Readable(entries[e].name) }

\* C20: once the listing of a configured root is answered, the answer is a
\* success; a workspace whose database could not be opened or queried has
\* no record and one logged error; every workspace whose database could be
\* read has exactly one record, whatever failed before or after it in the
\* listing; a missing or unparsable metadata file leaves the record in
\* place with its folder unset.
C20_FailureIsolation ==
    (GetDone /\ Configured /\ RootListable) =>
        /\ getResponse.status = 200
        /\ \A e \in FailedWorkspaces :
              /\ \A i \in 1..Len(getResponse.workspaceDetails) :
                    getResponse.workspaceDetails[i].id # entries[e].name
              /\ Cardinality(ErrorsLoggedFor(entries[e].name)) = 1
              /\ \A i \in ErrorsLoggedFor(entries[e].name) : errorLog[i].kind = "workspace"
        /\ \A e \in ReadableWorkspaces :
              /\ Cardinality({ i \in 1..Len(getResponse.workspaceDetails) :
                                 getResponse.workspaceDetails[i].id = entries[e].name }) = 1
              /\ \A i \in 1..Len(getResponse.workspaceDetails) :
                    (/\ getResponse.workspaceDetails[i].id = entries[e].name
                     /\ ~MetadataUsable(entries[e].name))
                    => getResponse.workspaceDetails[i].folder = JUndefined
        /\ getResponse.totalWorkspaces = Cardinality(ReadableWorkspaces)

\* A listing answered where the first workspace's database could not be
\* queried and the one after it, whose metadata file is no JSON, is
\* recorded with its folder unset.
C20_Witness ==
    /\ GetDone /\ Configured /\ RootListable
    /\ Len(entries) = 2
    /\ 1 \in FailedWorkspaces
    /\ 2 \in ReadableWorkspaces
    /\ Exists(fsys, MetadataPathOf(entries[2].name))
    /\ ~MetadataUsable(entries[2].name)
    /\ Len(getResponse.workspaceDetails) = 1
    /\ getResponse.workspaceDetails[1].id = entries[2].name
    /\ getResponse.workspaceDetails[1].folder = JUndefined

----------------------------------------------------------------------------
(* Presence flags and sizes of the records, checked under SpecStats *)

\* Bytes of the raw stored value of a row.
RawBytes(row) == IF HasValue(row) THEN ByteLength(row.value.text) ELSE 0

\* C21 as stated: in every record, a chat-data (composer-data) row that is
\* present and non-empty gives hasChats (hasComposers) = true and a size
\* equal to the byte length of the raw stored value, valid JSON or not; and
\* a false flag comes with count 0 and size 0.
C21_FlagsAndSizes ==
    \A i \in 1..Len(workspaceDetails) :
        LET w == workspaceDetails[i]
            chatRow == ChatRowOf(w.id)
            composerRow == ComposerRowOf(w.id)
        IN  /\ HasValue(chatRow) =>
                  w.hasChats /\ w.chatDataSizeMB = RawBytes(chatRow)
            /\ HasValue(composerRow) =>
                  w.hasComposers /\ w.composerDataSizeMB = RawBytes(composerRow)
            /\ ~w.hasChats => w.chatCount = 0 /\ w.chatDataSizeMB = 0
            /\ ~w.hasComposers => w.composerCount = 0 /\ w.composerDataSizeMB = 0

----------------------------------------------------------------------------
(* The entry answered for an existing row, checked under SpecEntry *)

\* The row the lookup's statement selects on the disk of the request.
RoutedRow == DbGet(fsysAtRequest, RoutedFile, RoutedTable, query.key.s)

RowSelected ==
    /\ ~ParamMissing(query.key)
    /\ Configured
    /\ Exists(fsysAtRequest, RoutedFile)
    /\ ~QueryThrows(fsysAtRequest, RoutedFile, RoutedTable)
    /\ RoutedRow.found

\* C25 as stated: a lookup whose key has a row in the selected table is
\* answered with the entry, for a NULL value and for a value that is no
\* JSON as well: rawValue is the stored value, parsedValue the decoded
\* document or the raw value when it does not decode, the size the UTF-8
\* byte length of the raw value (0 for NULL); never an error.
C25_ExistingRowAnswered ==
    (LookupDone /\ RowSelected) =>
        /\ lookupResponse.status = 200
        /\ lookupResponse.rawValue = RoutedRow.value
        /\ lookupResponse.parsedValue =
              (IF JsonParse(RoutedRow.value).ok
               THEN JsonParse(RoutedRow.value).json
               ELSE [t |-> "raw", value |-> RoutedRow.value])
        /\ lookupResponse.size = ByteLength(RoutedRow.value.text)

----------------------------------------------------------------------------
(* Overlapping requests, checked under SpecRace *)

\* A step of the statistics request or of the single-entry lookup.
ReadRequestStep == getVars' # getVars \/ scan' # scan \/ lookupVars' # lookupVars

\* C22 as stated: no step of a GET /statistics or GET /entry request
\* changes the set of files and directories on the disk, whatever is there
\* or missing when the step runs, a database file removed between the
\* existence check and the open included.
C22_ReadsLeaveDiskAlone ==
    [][ReadRequestStep => DOMAIN fsys' = DOMAIN fsys]_vars

\* The record an undisturbed read of workspace `name` gives on the disk the
\* requests started on, with the folder as read from the metadata file or
\* unset.
ConsistentRecords(name) ==
    LET dbPath == PathJoin(<<env, name, StateVscdb>>)
        chat == ReadData(DbGet(fsysAtRequest, dbPath, "ItemTable", ChatDataKey), "tabs")
        composer == ReadData(DbGet(fsysAtRequest, dbPath, "ItemTable", ComposerKey),
                             "allComposers")
    IN  IF ~Exists(fsysAtRequest, dbPath) \/ QueryThrows(fsysAtRequest, dbPath, "ItemTable")
        THEN {}
        ELSE { WorkspaceStats(name, folder, chat, composer) :
                 folder \in { WorkspaceFolder(fsysAtRequest,
                                              PathJoin(<<env, name, WorkspaceJson>>)),
                              JUndefined } }

----------------------------------------------------------------------------
(* The page's removal of empty workspaces *)

\* The ids of a request body the page sent
SentIds(b) == { b.fields.workspaceIds.items[i].s : i \in 1..Len(b.fields.workspaceIds.items) }

\* The record the held statistics give for a workspace
HeldRecords(name) ==
    IF page.statistics = NoStatistics THEN {}
    ELSE { page.statistics.workspaceDetails[i] :
             i \in { j \in 1..Len(page.statistics.workspaceDetails) :
                       page.statistics.workspaceDetails[j].id = name } }

\* The workspace holds chat or composer data on the disk as it is now.
HoldsData(name) ==
    /\ ~QueryThrows(fsys, DbPathOf(name), "ItemTable")
    /\ HasValue(ChatRowOf(name)) \/ HasValue(ComposerRowOf(name))

PageSends == page.phase = "ready" /\ page'.phase = "removing"

PageHoldsBack == page.phase = "ready" /\ page'.phase \in {"declined", "finished"}

\* C24 as stated: every id the page sends to the pruner has hasChats = false
\* and hasComposers = false in the statistics the page last fetched; when
\* the user declines or no workspace is empty, no request is sent; and no
\* step removes a workspace that holds chat or composer data at that
\* moment, data written after the statistics were fetched included.
C24_RemovesOnlyEmpty ==
    [][ /\ PageSends =>
              \A name \in SentIds(body') :
                  /\ HeldRecords(name) # {}
                  /\ \A w \in HeldRecords(name) : ~w.hasChats /\ ~w.hasComposers
        /\ PageHoldsBack => pcDelete' = "unsent" /\ body' = JNull
        /\ \A name \in WorkspaceNames :
              HoldsData(name) => Exists(fsys', PathJoin(<<env, name>>))
      ]_vars

====
